---- MODULE Spec2Model ----
(***************************************************************************)
(* The configuration-driven component registry of learn_ai_agents:         *)
(* ComponentsContainer (get / _instantiate / shutdown), the reference      *)
(* resolution of AppSettings it relies on, and AppContainer.build.         *)
(*                                                                         *)
(* Strings are sequences of tokens: a name token stands for a run of       *)
(* characters that holds no separator, and ".", "/", "-" and "_ref" are    *)
(* tokens of their own.                                                    *)
(***************************************************************************)
EXTENDS Integers, Sequences, FiniteSets, TLC

\* ------------------------------------------------------------------ bounds
\* Threads that call into one registry; thread 1 runs the event loop.
NThreads == 2
\* Instances constructed over one behaviour.
MaxInst == 2
\* Completed shutdown() calls over one behaviour.
MaxShutdowns == 1
\* Names in a reference given to resolve_ref.
MaxSegs == 5
\* Calls made on one MongoEngineAdapter.
MaxCalls == 3
\* The largest max_attempts a ModelRetryMiddleware is built with.
MaxAttempts == 4
\* Pieces (a character or a placeholder) the text of a manifest scalar is made of.
MaxPieces == 2
\* Newlines at the end of a secret file.
MaxNewlines == 2

\* Python's None as a value, and "no instance" as an instance id.
None == [type |-> "NoneType", v |-> <<>>]
NoInst == 0
Threads == 1..NThreads
LoopThread == 1

\* ------------------------------------------------------------------ strings
\* str.replace(old, new) for one-character old and new.
replace(s, old, new) == [i \in DOMAIN s |-> IF s[i] = old THEN new ELSE s[i]]

\* The key left as the caller spelled it.
cache_key_Raw(ref) == ref

\* ComponentsContainer.get, line 68: key = ref.replace("/", ".").replace("-", ".")
cache_key(ref) == replace(replace(ref, "/", "."), "-", ".")

\* AppSettings.resolve_ref: normalized_ref = ref.replace("/", ".").replace("-", ".")
normalized_ref(ref) == replace(replace(ref, "/", "."), "-", ".")

\* str.split(sep): the parts between the separators, empty parts included.
RECURSIVE split(_, _)
split(s, sep) ==
    IF \E i \in DOMAIN s : s[i] = sep
    THEN LET i == CHOOSE i \in DOMAIN s : s[i] = sep /\ \A j \in 1..(i - 1) : s[j] # sep
         IN  <<SubSeq(s, 1, i - 1)>> \o split(SubSeq(s, i + 1, Len(s)), sep)
    ELSE <<s>>

\* sep.join(parts)
RECURSIVE join(_, _)
join(parts, sep) ==
    IF Len(parts) = 0 THEN <<>>
    ELSE IF Len(parts) = 1 THEN parts[1]
    ELSE parts[1] \o <<sep>> \o join(Tail(parts), sep)

\* The parameter name left as the key is spelled.
strip_ref_Keep(key) == key

\* key.endswith("_ref") and key[:-4]
endswith_ref(key) == Len(key) > 0 /\ key[Len(key)] = "_ref"
strip_ref(key) == SubSeq(key, 1, Len(key) - 1)

\* ------------------------------------------------------------------ values
Str(v) == [type |-> "str", v |-> v]
SecretStr(v) == [type |-> "SecretStr", v |-> v]
Float(v) == [type |-> "float", v |-> v]
Obj(i) == [type |-> "instance", v |-> <<i>>]

\* ------------------------------------------------------------------ settings
DBRef == <<"database", ".", "mongo", ".", "pymongo", ".", "default">>
CPRef == <<"checkpointers", ".", "langgraph", ".", "mongo", ".", "default">>
LLMRef == <<"llms", ".", "langchain", ".", "groq", ".", "default">>
LLM2Ref == <<"llms", ".", "langchain", ".", "groq", ".", "creative">>
RepoRef == <<"repositories", ".", "langchain", ".", "mongo", ".", "default">>

\* AppSettings.components: type -> framework -> family -> ProviderFamily.
\* params are kept as the ordered list of (key, value) items of the dict. The
\* repository reaches the database adapter through two of its parameters; the name
\* of an instance of the llm family holds a "-".
components ==
    (<<"database">> :> (<<"mongo">> :> (<<"pymongo">> :>
        [constructor |-> [module_class |-> "PyMongoAsyncAdapter", api_key |-> None],
         instances |-> (<<"default">> :> [params |->
            << <<(<<"uri">>), Str(<<"mongodb://host">>)>>,
               <<(<<"database_name">>), Str(<<"learn_ai_agents">>)>> >>])])))
    @@
    (<<"checkpointers">> :> (<<"langgraph">> :> (<<"mongo">> :>
        [constructor |-> [module_class |-> "MongoCheckpointerAdapter", api_key |-> None],
         instances |-> (<<"default">> :> [params |->
            << <<(<<"database", "_ref">>), Str(DBRef)>>,
               <<(<<"db_name">>), Str(<<"learn_ai_agents">>)>>,
               <<(<<"checkpoint_collection_name">>), Str(<<"checkpoints">>)>> >>])])))
    @@
    (<<"repositories">> :> (<<"langchain">> :> (<<"mongo">> :>
        [constructor |-> [module_class |-> "Adapter", api_key |-> None],
         instances |-> (<<"default">> :> [params |->
            << <<(<<"documents", "_ref">>), Str(DBRef)>>,
               <<(<<"chunks", "_ref">>), Str(DBRef)>> >>])])))
    @@
    (<<"llms">> :> (<<"langchain">> :> (<<"groq">> :>
        [constructor |-> [module_class |-> "Adapter", api_key |-> SecretStr(<<"abc123">>)],
         instances |-> (<<"default">> :> [params |->
            << <<(<<"temperature">>), Float(<<"0.1">>)>> >>])
                       @@ (<<"creative">> :> [params |->
            << <<(<<"api_key">>), Str(<<"instance-key">>)>>,
               <<(<<"temperature">>), Float(<<"0.9">>)>> >>])
                       @@ (<<"high", "-", "temp">> :> [params |->
            << <<(<<"temperature">>), Float(<<"1.0">>)>> >>])])))

\* The outcome of a call: it returned, or it raised an exception of a type, with a
\* message, from a place (by).
NoExc == [type |-> "", msg |-> "", by |-> ""]
Exc(type, msg, by) == [type |-> type, msg |-> msg, by |-> by]
Returned == [ok |-> TRUE, exc |-> NoExc]
Raise(type, msg, by) == [ok |-> FALSE, exc |-> Exc(type, msg, by)]

\* An assignment that leaves a key that is present as it is.
dict_set_KeepFirst(items, key, value) ==
    IF \E i \in DOMAIN items : items[i][1] = key THEN items ELSE Append(items, <<key, value>>)

\* dict(items) followed by d[key] = value: the last value of a key wins.
dict_set(items, key, value) ==
    IF \E i \in DOMAIN items : items[i][1] = key
    THEN [i \in DOMAIN items |-> IF items[i][1] = key THEN <<key, value>> ELSE items[i]]
    ELSE Append(items, <<key, value>>)

\* A resolution that takes the first four parts of a longer reference.
_resolve_component_Truncating(ref) ==
    LET parts == split(ref, ".") IN
    IF Len(parts) < 4
    THEN [ok |-> FALSE, exc |-> Exc("ValueError", "Expected 4 parts", "resolve_ref"),
          module_class |-> "", cfg |-> <<>>]
    ELSE IF parts[1] \notin DOMAIN components
            \/ parts[2] \notin DOMAIN components[parts[1]]
            \/ parts[3] \notin DOMAIN components[parts[1]][parts[2]]
            \/ parts[4] \notin DOMAIN components[parts[1]][parts[2]][parts[3]].instances
         THEN [ok |-> FALSE, exc |-> Exc("KeyError", "Could not resolve component", "resolve_ref"),
               module_class |-> "", cfg |-> <<>>]
    ELSE [ok |-> TRUE, exc |-> NoExc,
          module_class |-> components[parts[1]][parts[2]][parts[3]].constructor.module_class,
          cfg |-> components[parts[1]][parts[2]][parts[3]].instances[parts[4]].params]

\* AppSettings._resolve_component
_resolve_component(ref) ==
    LET parts == split(ref, ".") IN
    IF Len(parts) # 4
    THEN [ok |-> FALSE, exc |-> Exc("ValueError", "Expected 4 parts", "resolve_ref"),
          module_class |-> "", cfg |-> <<>>]
    ELSE IF parts[1] \notin DOMAIN components
            \/ parts[2] \notin DOMAIN components[parts[1]]
            \/ parts[3] \notin DOMAIN components[parts[1]][parts[2]]
            \/ parts[4] \notin DOMAIN components[parts[1]][parts[2]][parts[3]].instances
         THEN [ok |-> FALSE, exc |-> Exc("KeyError", "Could not resolve component", "resolve_ref"),
               module_class |-> "", cfg |-> <<>>]
    ELSE LET provider_family == components[parts[1]][parts[2]][parts[3]]
             instance_cfg == provider_family.instances[parts[4]]
             api_key == provider_family.constructor.api_key
         IN  [ok |-> TRUE, exc |-> NoExc,
              module_class |-> provider_family.constructor.module_class,
              cfg |-> IF api_key # None
                      THEN dict_set(instance_cfg.params, <<"api_key">>, api_key)
                      ELSE instance_cfg.params]

\* AppSettings.resolve_ref(ref, "component")
resolve_ref(ref) == _resolve_component(normalized_ref(ref))

\* AppSettings.agents: framework -> agent name -> the agent's module_class, and
\* AppSettings.use_cases: use case name -> the use case's module_class.
agents ==
    (<<"langchain">> :> (<<"basic_answer">> :> "BasicAnswerAgent"))
    @@ (<<"multi_", "agents">> :> (<<"basic_answer">> :> "RouterAgent"))
use_cases == (<<"basic_answer">> :> "BasicAnswerUseCase")

\* What a resolution gives: the names of the entry found (target), or an exception.
Found(target) == [ok |-> TRUE, exc |-> NoExc, target |-> target]
NotFound(type, msg) == [ok |-> FALSE, exc |-> Exc(type, msg, "resolve_ref"), target |-> <<>>]

\* ref.startswith(prefix)
startswith(s, prefix) == Len(s) >= Len(prefix) /\ SubSeq(s, 1, Len(prefix)) = prefix

\* AppSettings._resolve_agent
_resolve_agent(ref) ==
    LET r == IF startswith(ref, <<"agents", ".">>) THEN SubSeq(ref, 3, Len(ref)) ELSE ref
        parts == split(r, ".")
    IN  IF Len(parts) # 2
        THEN NotFound("ValueError", "Expected 2 parts")
        ELSE IF parts[1] \notin DOMAIN agents \/ parts[2] \notin DOMAIN agents[parts[1]]
        THEN NotFound("KeyError", "Could not resolve agent")
        ELSE Found(parts)

\* AppSettings._resolve_use_case
_resolve_use_case(ref) ==
    IF ref \notin DOMAIN use_cases
    THEN NotFound("KeyError", "Could not resolve use case")
    ELSE Found(<<ref>>)

\* AppSettings.resolve_ref(ref, ref_type), lines 461-470
resolve_ref_type(ref, ref_type) ==
    LET n == normalized_ref(ref) IN
    IF ref_type = "component"
    THEN LET r == _resolve_component(n)
         IN  [ok |-> r.ok, exc |-> r.exc, target |-> IF r.ok THEN split(n, ".") ELSE <<>>]
    ELSE IF ref_type = "agent" THEN _resolve_agent(n)
    ELSE IF ref_type = "use_case" THEN _resolve_use_case(n)
    ELSE NotFound("ValueError", "Invalid ref_type")

\* str.replace(old, new) for a non-empty old of any length: the occurrences are
\* taken from the left and do not overlap.
RECURSIVE str_replace(_, _, _)
str_replace(s, old, new) ==
    IF Len(s) < Len(old) THEN s
    ELSE IF SubSeq(s, 1, Len(old)) = old
    THEN new \o str_replace(SubSeq(s, Len(old) + 1, Len(s)), old, new)
    ELSE <<s[1]>> \o str_replace(Tail(s), old, new)

\* AgentsContainer: the agents are stored under f"{framework}.{agent_key}" (line 60),
\* and get(name) is self._agents[name].
agent_keys == UNION {{f \o <<".">> \o a : a \in DOMAIN agents[f]} : f \in DOMAIN agents}
AgentsContainer_get(name) ==
    IF name \in agent_keys THEN Found(name)
    ELSE [ok |-> FALSE, exc |-> Exc("KeyError", "", "agents.get"), target |-> <<>>]

\* UseCasesContainer.create, line 74: agents.get(ref.replace("agents.", ""))
use_case_agent(ref) == AgentsContainer_get(str_replace(ref, <<"agents", ".">>, <<>>))

\* ------------------------------------------------------------------ state
VARIABLES
    callers,          \* the threads whose code calls get()
    inputs,           \* the references callers pass to get()
    adapterClass,     \* what the class behind module_class "Adapter" exposes
    _cache,           \* ComponentsContainer._cache, in insertion order: <<[key, inst], ...>>
    _lock,            \* ComponentsContainer._lock, an RLock: [owner, count]
    stack,            \* per thread, the get() frames it is in, outermost first
    work,             \* per thread, its current top-level get(): the argument and what
                      \* the call has done so far
    ret,              \* how the last completed call into the registry ended, until the
                      \* next call is made
    insts,            \* every instance constructed so far; an instance's id is its index
    connected,        \* the database adapters whose _client is set
    get_client_calls, \* every DatabaseClient.get_client() call made so far
    sd,               \* where the running shutdown() is
    shutdowns,        \* completed shutdown() calls
    phase,            \* where AppContainer.build is
    build,            \* AppContainer.build: the agents in the dict of
                      \* AgentsContainer.create, whether the container of the agents was
                      \* returned, per use case still to build the component references
                      \* still to get for it, and the use cases built
    todoAgents,       \* AgentsContainer.create: per agent still to build, the component
                      \* references still to get for it
    lookup,           \* a reference given to AppSettings.resolve_ref, and what came of it
    loader,           \* the loading of AppSettings: its sources and what they produced
    mongo,            \* a MongoEngineAdapter: its fields and the calls made on it
    retry             \* a ModelRetryMiddleware.awrap_model_call: the calls of the handler

\* The state of the registry and of the build, and the state of the settings and of
\* the objects that are used on their own.
registryVars == <<callers, inputs, adapterClass, _cache, _lock, stack, work, ret, insts,
                  connected, get_client_calls, sd, shutdowns, phase, todoAgents, build>>
settingsVars == <<lookup, loader, mongo, retry>>
vars == <<registryVars, settingsVars>>

\* ------------------------------------------------------------------ dicts
has_key(items, key) == \E i \in DOMAIN items : items[i][1] = key
\* kwargs.get(key): the value, or None
dict_get(items, key) ==
    IF has_key(items, key)
    THEN items[CHOOSE i \in DOMAIN items : items[i][1] = key][2]
    ELSE None
keys(items) == {items[i][1] : i \in DOMAIN items}

\* A cache check that never finds the key.
InCache_Miss(key) == FALSE

\* A lookup that returns the oldest entry, whatever the key.
Cached_First(key) == _cache[1].inst

\* An insertion that drops the other entries.
cache_set_Alone(key, inst) == <<[key |-> key, inst |-> inst]>>

\* `key in self._cache` and `self._cache[key]`
InCache(key) == \E i \in DOMAIN _cache : _cache[i].key = key
Cached(key) == _cache[CHOOSE i \in DOMAIN _cache : _cache[i].key = key].inst
\* self._cache[key] = instance
cache_set(key, inst) ==
    IF InCache(key)
    THEN [i \in DOMAIN _cache |-> IF _cache[i].key = key THEN [key |-> key, inst |-> inst]
                                   ELSE _cache[i]]
    ELSE Append(_cache, [key |-> key, inst |-> inst])

\* ------------------------------------------------------------------ classes
\* A strategy a class does not have: getattr(obj, name, None) is not callable.
Absent == Raise("AttributeError", "", "getattr")

\* PyMongoAsyncAdapter.__init__(self, uri, database_name="learn_ai_agents")
PyMongoAsyncAdapter_init(kwargs) ==
    IF keys(kwargs) \ {<<"uri">>, <<"database_name">>} # {}
    THEN Raise("TypeError", "unexpected keyword argument", "kwargs")
    ELSE IF <<"uri">> \notin keys(kwargs)
    THEN Raise("TypeError", "missing required argument", "kwargs")
    ELSE Returned

\* isinstance(database, DatabaseClient)
IsDatabaseClient(value) ==
    value.type = "instance" /\ insts[value.v[1]].cls = "PyMongoAsyncAdapter"

\* MongoCheckpointerAdapter.build reaches database.get_client()
ReachesGetClient(kwargs) ==
    /\ dict_get(kwargs, <<"database">>) # None
    /\ dict_get(kwargs, <<"db_name">>) # None
    /\ dict_get(kwargs, <<"checkpoint_collection_name">>) # None
    /\ IsDatabaseClient(dict_get(kwargs, <<"database">>))

\* PyMongoAsyncAdapter.get_client
get_client(db) ==
    IF db \notin connected
    THEN Raise("ComponentOperationException", "PyMongo client is not connected", "build")
    ELSE Returned

\* MongoCheckpointerAdapter.build(**kwargs)
MongoCheckpointerAdapter_build(kwargs) ==
    IF \/ dict_get(kwargs, <<"database">>) = None
       \/ dict_get(kwargs, <<"db_name">>) = None
       \/ dict_get(kwargs, <<"checkpoint_collection_name">>) = None
    THEN Raise("ValueError", "database, db_name, and checkpoint_collection_name are required", "build")
    ELSE IF ~IsDatabaseClient(dict_get(kwargs, <<"database">>))
    THEN Raise("TypeError", "database must be a DatabaseClient instance", "build")
    ELSE get_client(dict_get(kwargs, <<"database">>).v[1])

\* What a strategy of the class "Adapter" may do when it is called.
FactoryOutcomes(by) == {Returned, Raise("ValueError", "invalid parameters", by)}
KwargsOutcomes ==
    {Returned,
     Raise("TypeError", "unexpected keyword argument", "kwargs"),
     Raise("TypeError", "missing required argument", "kwargs"),
     Raise("ValueError", "invalid parameters", "kwargs")}
ConfigOutcomes ==
    {Returned,
     Raise("TypeError", "unexpected keyword argument", "config"),
     Raise("ValueError", "invalid parameters", "config")}

\* import_class_from_string(module_class), as what each construction strategy of the
\* class does when called with these keyword arguments: one record per way the
\* calls can go.
Strategies(module_class, kwargs) ==
    IF module_class = "PyMongoAsyncAdapter"
    THEN {[build |-> Absent, create |-> Absent,
           kwargs |-> PyMongoAsyncAdapter_init(kwargs),
           config |-> Raise("TypeError", "unexpected keyword argument", "config")]}
    ELSE IF module_class = "MongoCheckpointerAdapter"
    THEN {[build |-> MongoCheckpointerAdapter_build(kwargs), create |-> Absent,
           kwargs |-> Returned, config |-> Returned]}
    ELSE [build : IF adapterClass.build THEN FactoryOutcomes("build") ELSE {Absent},
          create : IF adapterClass.create THEN FactoryOutcomes("create") ELSE {Absent},
          kwargs : KwargsOutcomes,
          config : ConfigOutcomes]

\* type(instance) of what the construction returns
ProductClass(module_class) ==
    IF module_class = "MongoCheckpointerAdapter" THEN "AsyncMongoDBSaver" ELSE module_class

UnexpectedKeyword(out) ==
    ~out.ok /\ out.exc.type = "TypeError" /\ out.exc.msg = "unexpected keyword argument"

\* _instantiate going on to the next strategy whenever one fails.
construct_FallThrough(o) ==
    LET avail == SelectSeq(<<"build", "create", "kwargs", "config">>, LAMBDA n : o[n] # Absent)
        firstOk == IF \E i \in DOMAIN avail : o[avail[i]].ok
                   THEN CHOOSE i \in DOMAIN avail :
                            o[avail[i]].ok /\ \A j \in 1..(i - 1) : ~o[avail[j]].ok
                   ELSE Len(avail)
    IN  [attempted |-> SubSeq(avail, 1, firstOk), out |-> o[avail[firstOk]]]

\* _instantiate falling back to the config dict on any TypeError of the constructor.
construct_AnyTypeError(o) ==
    IF o.build # Absent THEN [attempted |-> <<"build">>, out |-> o.build]
    ELSE IF o.create # Absent THEN [attempted |-> <<"create">>, out |-> o.create]
    ELSE IF o.kwargs.ok THEN [attempted |-> <<"kwargs">>, out |-> o.kwargs]
    ELSE IF o.kwargs.exc.type = "TypeError"
    THEN IF o.config.ok \/ o.config.exc.type # "TypeError"
         THEN [attempted |-> <<"kwargs", "config">>, out |-> o.config]
         ELSE [attempted |-> <<"kwargs", "config">>, out |-> o.kwargs]
    ELSE [attempted |-> <<"kwargs">>, out |-> o.kwargs]

\* _instantiate letting the TypeError of the config-dict construction through.
construct_RaiseLast(o) ==
    IF o.build # Absent THEN [attempted |-> <<"build">>, out |-> o.build]
    ELSE IF o.create # Absent THEN [attempted |-> <<"create">>, out |-> o.create]
    ELSE IF o.kwargs.ok THEN [attempted |-> <<"kwargs">>, out |-> o.kwargs]
    ELSE IF UnexpectedKeyword(o.kwargs)
    THEN [attempted |-> <<"kwargs", "config">>, out |-> o.config]
    ELSE [attempted |-> <<"kwargs">>, out |-> o.kwargs]

\* ComponentsContainer._instantiate, lines 118-145: the strategies tried, in order,
\* and the outcome of the call, given what each strategy does (o).
construct(o) ==
    IF o.build # Absent
    THEN [attempted |-> <<"build">>, out |-> o.build]
    ELSE IF o.create # Absent
    THEN [attempted |-> <<"create">>, out |-> o.create]
    ELSE IF o.kwargs.ok
    THEN [attempted |-> <<"kwargs">>, out |-> o.kwargs]
    ELSE IF o.kwargs.exc.type = "TypeError" /\ o.kwargs.exc.msg = "unexpected keyword argument"
    THEN IF o.config.ok
         THEN [attempted |-> <<"kwargs", "config">>, out |-> o.config]
         ELSE IF o.config.exc.type = "TypeError"
         THEN [attempted |-> <<"kwargs", "config">>, out |-> o.kwargs]
         ELSE [attempted |-> <<"kwargs", "config">>, out |-> o.config]
    ELSE [attempted |-> <<"kwargs">>, out |-> o.kwargs]

\* ------------------------------------------------------------------ inputs
\* The segments of a reference: the names between its separators.
RECURSIVE segments(_)
segments(ref) ==
    IF \E i \in DOMAIN ref : ref[i] \in {".", "/", "-"}
    THEN LET i == CHOOSE i \in DOMAIN ref :
                    ref[i] \in {".", "/", "-"} /\ \A j \in 1..(i - 1) : ref[j] \notin {".", "/", "-"}
         IN  <<SubSeq(ref, 1, i - 1)>> \o segments(SubSeq(ref, i + 1, Len(ref)))
    ELSE <<ref>>

\* The references callers pass to get(): the declared components in their three
\* spellings, a second instance of a family, a reference of three segments and one
\* that names no component.
RefInputs ==
    {join(segments(r), sep) : r \in {DBRef, CPRef, LLMRef}, sep \in {".", "/", "-"}}
    \cup {LLM2Ref,
          <<"llms", ".", "langchain", ".", "groq">>,
          <<"llms", "/", "langchain", "/", "groq", "/", "missing">>}

\* AppSettings.agents, as the component references AgentsContainer.create gets for
\* each agent, in order.
AgentConfigs ==
    { << <<LLMRef>> >>,
      << <<LLMRef>>, <<LLMRef, CPRef>> >> }

\* AppSettings.use_cases, as the component references UseCasesContainer.create gets
\* for each use case, in order (the references to agents are not among them).
UseCaseConfigs ==
    { << <<>> >>,
      << <<DBRef>> >> }

\* What the class "Adapter" may expose: each combination of the factory methods, and
\* each combination of the cleanup hooks.
PlainAdapter == [build |-> FALSE, create |-> FALSE, hooks |-> {"aclose", "close"}]
AdapterClasses ==
    [build : BOOLEAN, create : BOOLEAN, hooks : {{"aclose", "close"}}]
    \cup [build : {FALSE}, create : {FALSE}, hooks : {{"close"}, {"aclose"}}]

\* ------------------------------------------------------------------ lock
\* get() and shutdown() without the lock.
CanAcquire_Unlocked(t) == TRUE

\* A lock that its owner cannot take again.
CanAcquire_NonReentrant(t) == _lock.owner = 0

\* RLock.acquire() returns when no other thread owns the lock.
CanAcquire(t) == _lock.owner \in {0, t}
acquire(t) == [owner |-> t, count |-> _lock.count + 1]
\* n matching RLock.release() calls
release(n) ==
    IF _lock.count - n <= 0 THEN [owner |-> 0, count |-> 0]
    ELSE [owner |-> _lock.owner, count |-> _lock.count - n]

\* ------------------------------------------------------------------ results
\* A completed call: op is "get" or "shutdown". For a shutdown(), the cache it found
\* and the cleanup hooks it called, in order. For a get(), the argument, the
\* instance returned or the exception raised (with the key whose resolution or
\* construction raised it, the strategies attempted there and what each did), the
\* resolve_ref and _instantiate calls the get() made, whether the key was uncached
\* when the caller called (raced) and, when the call completed just before it was a
\* get() of the same segments that returned, that call's argument and instance
\* (after), and the cache as it was when the caller called (before).
NoCall == [ref |-> <<>>, inst |-> NoInst]
NoRet ==
    [op |-> "", ref |-> <<>>, ok |-> FALSE, inst |-> NoInst, exc |-> NoExc, failed |-> <<>>,
     attempted |-> <<>>, outs |-> <<>>, resolutions |-> 0, instantiations |-> 0,
     after |-> NoCall, raced |-> FALSE, epoch |-> 0, cached |-> <<>>, hooks_called |-> <<>>,
     before |-> <<>>]
NoWork == [pending |-> FALSE, ref |-> <<>>, uncached |-> FALSE, after |-> NoCall,
           resolutions |-> 0, instantiations |-> 0, before |-> <<>>]
SdIdle == [pc |-> "idle", idx |-> 0, m |-> 0, cached |-> <<>>, hooks_called |-> <<>>]

\* No reference resolved on its own, no settings being loaded.
NoLookup == [pc |-> "none"]
NoLoader == [pc |-> "none"]
\* No MongoEngineAdapter, no model call.
NoMongo == [pc |-> "none"]
NoRetry == [pc |-> "none"]

\* AppContainer.build not called, or called and nothing built yet.
NoBuild == [agents |-> 0, returned |-> FALSE, todo |-> <<>>, use_cases |-> 0]

Idle(t) == stack[t] = <<>> /\ ~work[t].pending /\ (t = LoopThread => sd.pc = "idle")
\* The registry is reachable by callers: it was created on its own, or the
\* application container that owns it is built.
Serving == phase \in {"standalone", "built"}

\* The registry as ComponentsContainer.create returns it, on its own or inside
\* AppContainer.build (line 57), which goes on to build the agents.
Created ==
    /\ lookup = NoLookup /\ loader = NoLoader /\ mongo = NoMongo /\ retry = NoRetry
    /\ _cache = <<>>
    /\ _lock = [owner |-> 0, count |-> 0]
    /\ stack = [t \in Threads |-> <<>>]
    /\ work = [t \in Threads |-> NoWork]
    /\ ret = NoRet
    /\ insts = <<>>
    /\ connected = {}
    /\ get_client_calls = {}
    /\ sd = SdIdle
    /\ shutdowns = 0

\* One caller, every spelling of the references. The registry is created on its
\* own, for a class "Adapter" of any shape, or by AppContainer.build.
Init ==
    /\ callers = {LoopThread}
    /\ inputs = RefInputs
    /\ Created
    /\ \/ /\ phase = "standalone" /\ todoAgents = <<>> /\ adapterClass \in AdapterClasses
          /\ build = NoBuild
       \/ /\ phase = "agents" /\ todoAgents \in AgentConfigs /\ adapterClass = PlainAdapter
          /\ \E uc \in UseCaseConfigs : build = [NoBuild EXCEPT !.todo = uc]

\* Every thread a caller, on a registry created on its own.
InitThreads ==
    /\ callers = Threads
    /\ inputs = {DBRef, CPRef}
    /\ adapterClass = PlainAdapter
    /\ Created
    /\ phase = "standalone" /\ todoAgents = <<>> /\ build = NoBuild

\* ------------------------------------------------------------------ get
Frame(ref, r) ==
    [ref |-> ref, key |-> cache_key(ref), module_class |-> r.module_class,
     todo |-> r.cfg, resolved_cfg |-> <<>>]

\* The top-level get() of thread t returns instance inst.
GetReturns(t, w, inst, hit, attempted, outs) ==
    /\ ret' = [NoRet EXCEPT !.op = "get", !.ref = w.ref, !.ok = TRUE, !.inst = inst,
                    !.attempted = attempted, !.outs = outs,
                    !.resolutions = w.resolutions, !.instantiations = w.instantiations,
                    !.after = w.after, !.raced = w.uncached /\ hit, !.epoch = shutdowns,
                    !.before = w.before]
    /\ work' = [work EXCEPT ![t] = NoWork]
    /\ UNCHANGED phase

\* A build that goes on after an exception.
propagate_Swallowed(ph) == ph

\* AppContainer.build, lines 56-66, AgentsContainer.create and
\* UseCasesContainer.create have no handler: an exception raised while the agents or
\* the use cases are built leaves AppContainer.build.
propagate(ph) == IF ph \in {"agents", "use_cases"} THEN "failed" ELSE ph

\* An exception leaves the top-level get() of thread t: every frame of the thread
\* is left, each releasing the lock once. During AppContainer.build the
\* exception leaves the build as well.
GetRaises(t, w, exc, failed, attempted, outs) ==
    /\ ret' = [NoRet EXCEPT !.op = "get", !.ref = w.ref, !.exc = exc,
                    !.failed = failed, !.attempted = attempted, !.outs = outs,
                    !.resolutions = w.resolutions, !.instantiations = w.instantiations,
                    !.after = w.after, !.epoch = shutdowns, !.before = w.before]
    /\ work' = [work EXCEPT ![t] = NoWork]
    /\ phase' = propagate(phase)

\* ComponentsContainer.get(ref) of thread t, lines 68-75, once the lock is taken: the
\* cached instance, or the resolution of the reference.
Get(t, ref, w) ==
    LET key == cache_key(ref)
    IN  /\ CanAcquire(t)
        /\ IF InCache(key)
           THEN /\ GetReturns(t, w, Cached(key), TRUE, <<>>, <<>>)
                /\ UNCHANGED <<stack, _lock>>
           ELSE LET r == resolve_ref(ref)
                    w1 == [w EXCEPT !.resolutions = 1]
                IN  IF r.ok
                    THEN /\ stack' = [stack EXCEPT ![t] = <<Frame(ref, r)>>]
                         /\ _lock' = acquire(t)
                         /\ work' = [work EXCEPT ![t] = w1]
                         /\ UNCHANGED <<ret, phase>>
                    ELSE /\ GetRaises(t, w1, r.exc, key, <<>>, <<>>)
                         /\ UNCHANGED <<stack, _lock>>
        /\ UNCHANGED <<settingsVars, callers, inputs, adapterClass, _cache, insts, connected, get_client_calls, sd, shutdowns>>

\* What a call of get(ref) finds: whether the key is cached, and the call completed
\* just before it.
Called(ref) ==
    [NoWork EXCEPT !.ref = ref, !.uncached = ~InCache(cache_key(ref)), !.before = _cache,
        !.after = IF ret.op = "get" /\ ret.ok /\ segments(ret.ref) = segments(ref)
                  THEN [ref |-> ret.ref, inst |-> ret.inst] ELSE NoCall]

\* A caller's thread calls get(ref) and reaches `with self._lock`.
GetCall(t, ref) ==
    /\ Serving
    /\ t \in callers /\ ref \in inputs
    /\ Idle(t)
    /\ work' = [work EXCEPT ![t] = [Called(ref) EXCEPT !.pending = TRUE]]
    /\ ret' = NoRet
    /\ UNCHANGED <<settingsVars, callers, inputs, adapterClass, _cache, _lock, stack, insts, connected,
                   get_client_calls, sd, shutdowns, phase, todoAgents, build>>

\* The caller's thread takes the lock and runs get() up to the resolution.
GetEnter(t) ==
    /\ work[t].pending
    /\ Get(t, work[t].ref, [work[t] EXCEPT !.pending = FALSE])
    /\ UNCHANGED <<todoAgents, build>>

\* ComponentsContainer._instantiate, lines 103-114: one item of cfg. A key ending in
\* _ref with a string value is a nested get(), which takes the lock again.
InstantiateItem(t) ==
    /\ stack[t] # <<>>
    /\ LET n == Len(stack[t])
           f == stack[t][n]
       IN
       /\ f.todo # <<>>
       /\ LET key == f.todo[1][1]
              value == f.todo[1][2]
              set(k, v) == [stack EXCEPT ![t][n].resolved_cfg = dict_set(f.resolved_cfg, k, v),
                                         ![t][n].todo = Tail(f.todo)]
          IN
          IF value.type = "SecretStr"
          THEN /\ stack' = set(key, Str(value.v))
               /\ UNCHANGED <<_lock, work, ret, phase>>
          ELSE IF endswith_ref(key) /\ value.type = "str"
          THEN LET ref == value.v
                   nkey == cache_key(ref)
                   r == resolve_ref(ref)
                   w1 == [work[t] EXCEPT !.resolutions = @ + 1]
               IN  /\ CanAcquire(t)
                   /\ IF InCache(nkey)
                      THEN /\ stack' = set(strip_ref(key), Obj(Cached(nkey)))
                           /\ UNCHANGED <<_lock, work, ret, phase>>
                      ELSE IF r.ok
                      THEN /\ stack' = [stack EXCEPT ![t] = Append(@, Frame(ref, r))]
                           /\ _lock' = acquire(t)
                           /\ work' = [work EXCEPT ![t] = w1]
                           /\ UNCHANGED <<ret, phase>>
                      ELSE /\ stack' = [stack EXCEPT ![t] = <<>>]
                           /\ _lock' = release(n)
                           /\ GetRaises(t, w1, r.exc, nkey, <<>>, <<>>)
          ELSE /\ stack' = set(key, value)
               /\ UNCHANGED <<_lock, work, ret, phase>>
    /\ UNCHANGED <<settingsVars, callers, inputs, adapterClass, _cache, insts, connected, get_client_calls, sd, shutdowns,
                   todoAgents, build>>

\* ComponentsContainer._instantiate, lines 116-145, and get, lines 77-80: the class is
\* loaded and constructed, and the instance is cached and returned.
Instantiate(t) ==
    /\ stack[t] # <<>>
    /\ LET n == Len(stack[t])
           f == stack[t][n]
           w1 == [work[t] EXCEPT !.instantiations = @ + 1]
       IN
       /\ f.todo = <<>>
       /\ \E o \in Strategies(f.module_class, f.resolved_cfg) :
            LET c == construct(o)
                outs == [i \in DOMAIN c.attempted |-> o[c.attempted[i]]]
                id == Len(insts) + 1
            IN
            /\ get_client_calls' =
                 IF f.module_class = "MongoCheckpointerAdapter" /\ ReachesGetClient(f.resolved_cfg)
                 THEN LET db == dict_get(f.resolved_cfg, <<"database">>).v[1]
                      IN  get_client_calls \cup
                            {[db |-> db, connected |-> db \in connected, phase |-> phase]}
                 ELSE get_client_calls
            /\ IF c.out.ok
               THEN /\ Len(insts) < MaxInst
                    /\ insts' = Append(insts,
                          [key |-> f.key, cls |-> ProductClass(f.module_class),
                           kwargs |-> f.resolved_cfg, epoch |-> shutdowns])
                    /\ _cache' = cache_set(f.key, id)
                    /\ _lock' = release(1)
                    /\ IF n = 1
                       THEN /\ stack' = [stack EXCEPT ![t] = <<>>]
                            /\ GetReturns(t, w1, id, FALSE, c.attempted, outs)
                       ELSE /\ LET p == stack[t][n - 1]
                               IN  stack' = [stack EXCEPT ![t] =
                                      [SubSeq(@, 1, n - 1) EXCEPT ![n - 1].resolved_cfg =
                                            dict_set(p.resolved_cfg, strip_ref(p.todo[1][1]), Obj(id)),
                                         ![n - 1].todo = Tail(p.todo)]]
                            /\ work' = [work EXCEPT ![t] = w1]
                            /\ UNCHANGED <<ret, phase>>
               ELSE /\ stack' = [stack EXCEPT ![t] = <<>>]
                    /\ _lock' = release(n)
                    /\ GetRaises(t, w1, c.out.exc, f.key, c.attempted, outs)
                    /\ UNCHANGED <<insts, _cache>>
    /\ UNCHANGED <<settingsVars, callers, inputs, adapterClass, connected, sd, shutdowns, todoAgents, build>>

\* ------------------------------------------------------------------ database
\* PyMongoAsyncAdapter.connect, called by code that obtained the adapter from get():
\* _client is set once the ping is answered.
connect(db) ==
    /\ Serving
    /\ insts[db].cls = "PyMongoAsyncAdapter"
    /\ db \notin connected
    /\ connected' = connected \cup {db}
    /\ UNCHANGED <<settingsVars, callers, inputs, adapterClass, _cache, _lock, stack, work, ret, insts, get_client_calls,
                   sd, shutdowns, phase, todoAgents, build>>

\* ------------------------------------------------------------------ shutdown
\* callable(getattr(component, method_name, None))
has_hook(inst, method_name) ==
    insts[inst].cls = "Adapter" /\ method_name \in adapterClass.hooks

method_names == <<"aclose", "close">>

\* What a cleanup hook may do when called: return, or raise an Exception.
HookOutcomes == {Returned, Raise("Exception", "close failed", "hook")}

\* ComponentsContainer.shutdown, line 153: the event loop's thread takes the lock
\* and starts to iterate the cache.
ShutdownCall ==
    /\ Serving
    /\ Idle(LoopThread)
    /\ shutdowns < MaxShutdowns
    /\ CanAcquire(LoopThread)
    /\ _lock' = acquire(LoopThread)
    /\ sd' = [pc |-> "iter", idx |-> 1, m |-> 1, cached |-> _cache, hooks_called |-> <<>>]
    /\ work' = [t \in Threads |-> [work[t] EXCEPT !.after = NoCall]]
    /\ ret' = NoRet
    /\ UNCHANGED <<settingsVars, callers, inputs, adapterClass, _cache, stack, insts, connected,
                   get_client_calls, shutdowns, phase, todoAgents, build>>

\* The step of the two loops that follows (idx, m).
sd_next == IF sd.m < Len(method_names) THEN [sd EXCEPT !.m = @ + 1]
           ELSE [sd EXCEPT !.idx = @ + 1, !.m = 1]

\* shutdown() without the handler.
caught_Nothing(exc) == FALSE

\* `except Exception as e`, lines 166-167: the handler takes what the hook raised.
caught(exc) == exc.type = "Exception"

\* ComponentsContainer.shutdown, lines 155-157: the loops go on to the next method
\* name, or to the next item of the cache; the iterator of a dict that changed its
\* size raises RuntimeError, which leaves shutdown(), the lock released, the cache as
\* it is.
Advance(log) ==
    IF sd.m = Len(method_names) /\ Len(_cache) # Len(sd.cached)
    THEN /\ sd' = SdIdle
         /\ _lock' = release(1)
         /\ ret' = [NoRet EXCEPT !.op = "shutdown",
                       !.exc = Exc("RuntimeError", "dictionary changed size during iteration", "shutdown"),
                       !.epoch = shutdowns, !.cached = sd.cached, !.hooks_called = log]
    ELSE /\ sd' = [sd_next EXCEPT !.hooks_called = log, !.pc = "iter"]
         /\ UNCHANGED <<_lock, ret>>

\* ComponentsContainer.shutdown, lines 159-167: the hook method_name of component has
\* been called and ended with out. An exception that the handler takes is logged and
\* the loops go on; any other leaves shutdown(), the lock released, the cache as it
\* is.
HookEnds(component, method_name, out) ==
    LET log == Append(sd.hooks_called,
                      [inst |-> component, name |-> method_name, ok |-> out.ok])
    IN  IF out.ok \/ caught(out.exc)
        THEN Advance(log)
        ELSE /\ sd' = SdIdle
             /\ _lock' = release(1)
             /\ ret' = [NoRet EXCEPT !.op = "shutdown", !.exc = out.exc,
                           !.epoch = shutdowns, !.cached = sd.cached,
                           !.hooks_called = log]

\* ComponentsContainer.shutdown, lines 157-167: one method name of one cached
\* component, the hook running to its end without another coroutine in between.
ShutdownHook ==
    /\ sd.pc = "iter"
    /\ sd.idx <= Len(_cache)
    /\ LET component == _cache[sd.idx].inst
           method_name == method_names[sd.m]
       IN  IF has_hook(component, method_name)
           THEN \E out \in HookOutcomes : HookEnds(component, method_name, out)
           ELSE Advance(sd.hooks_called)
    /\ UNCHANGED <<settingsVars, callers, inputs, adapterClass, _cache, stack, work, insts,
                   connected, get_client_calls, shutdowns, phase, todoAgents, build>>

\* ComponentsContainer.shutdown, line 163: `await method()` of an aclose hook suspends
\* the coroutine of shutdown(), which holds the lock, and the event loop runs others.
ShutdownAwait ==
    /\ sd.pc = "iter"
    /\ sd.idx <= Len(_cache)
    /\ method_names[sd.m] = "aclose"
    /\ has_hook(_cache[sd.idx].inst, "aclose")
    /\ sd' = [sd EXCEPT !.pc = "await"]
    /\ UNCHANGED <<settingsVars, callers, inputs, adapterClass, _cache, _lock, stack, work, ret,
                   insts, connected, get_client_calls, shutdowns, phase, todoAgents, build>>

\* Another coroutine of the event loop calls get(ref) while shutdown() is suspended:
\* it runs on the thread that owns the lock.
AwaitedGetCall(ref) ==
    /\ sd.pc = "await"
    /\ LoopThread \in callers /\ ref \in inputs
    /\ stack[LoopThread] = <<>> /\ ~work[LoopThread].pending
    /\ work' = [work EXCEPT ![LoopThread] = [Called(ref) EXCEPT !.pending = TRUE]]
    /\ ret' = NoRet
    /\ UNCHANGED <<settingsVars, callers, inputs, adapterClass, _cache, _lock, stack, insts, connected,
                   get_client_calls, sd, shutdowns, phase, todoAgents, build>>

\* The awaited aclose hook ends and shutdown() is resumed.
ShutdownResume ==
    /\ sd.pc = "await"
    /\ stack[LoopThread] = <<>> /\ ~work[LoopThread].pending
    /\ \E out \in HookOutcomes : HookEnds(_cache[sd.idx].inst, "aclose", out)
    /\ UNCHANGED <<settingsVars, callers, inputs, adapterClass, _cache, stack, work, insts,
                   connected, get_client_calls, shutdowns, phase, todoAgents, build>>

\* ComponentsContainer.shutdown, line 168: the cache is cleared, the lock released.
ShutdownClear ==
    /\ sd.pc = "iter"
    /\ sd.idx > Len(_cache)
    /\ _cache' = <<>>
    /\ _lock' = release(1)
    /\ sd' = SdIdle
    /\ shutdowns' = shutdowns + 1
    /\ ret' = [NoRet EXCEPT !.op = "shutdown", !.ok = TRUE, !.epoch = shutdowns,
                             !.cached = sd.cached, !.hooks_called = sd.hooks_called]
    /\ UNCHANGED <<settingsVars, callers, inputs, adapterClass, stack, work, insts, connected, get_client_calls,
                   phase, todoAgents, build>>

\* ------------------------------------------------------------------ build
\* AgentsContainer.create, lines 79 and 83: components.get(ref) for the next
\* component reference of the agent being built.
BuildGet ==
    /\ phase = "agents"
    /\ Idle(LoopThread)
    /\ todoAgents # <<>> /\ todoAgents[1] # <<>>
    /\ Get(LoopThread, todoAgents[1][1], Called(todoAgents[1][1]))
    /\ todoAgents' = [todoAgents EXCEPT ![1] = Tail(@)]
    /\ UNCHANGED build

\* AgentsContainer.create, lines 63 and 87-90: the class of the agent is loaded and
\* the agent is constructed from its components and put into the dict; or one of
\* the two raises.
BuildAgent ==
    /\ phase = "agents"
    /\ Idle(LoopThread)
    /\ todoAgents # <<>> /\ todoAgents[1] = <<>>
    /\ \/ /\ todoAgents' = Tail(todoAgents)
          /\ build' = [build EXCEPT !.agents = @ + 1]
          /\ UNCHANGED phase
       \/ phase' = propagate(phase) /\ UNCHANGED <<todoAgents, build>>
    /\ UNCHANGED <<settingsVars, callers, inputs, adapterClass, _cache, _lock, stack, work, ret, insts, connected,
                   get_client_calls, sd, shutdowns>>

\* A build that sets up the use cases before every agent is built.
BuildAgentsReturn_Early ==
    /\ phase = "agents"
    /\ Idle(LoopThread)
    /\ phase' = "use_cases"
    /\ build' = [build EXCEPT !.returned = TRUE]
    /\ UNCHANGED <<settingsVars, callers, inputs, adapterClass, _cache, _lock, stack, work, ret, insts, connected,
                   get_client_calls, sd, shutdowns, todoAgents>>

\* AgentsContainer.create, line 93, and AppContainer.build, lines 60-63: with every
\* agent built the container of the agents is returned, and the use cases are set up.
BuildAgentsReturn ==
    /\ phase = "agents"
    /\ Idle(LoopThread)
    /\ todoAgents = <<>>
    /\ phase' = "use_cases"
    /\ build' = [build EXCEPT !.returned = TRUE]
    /\ UNCHANGED <<settingsVars, callers, inputs, adapterClass, _cache, _lock, stack, work, ret, insts, connected,
                   get_client_calls, sd, shutdowns, todoAgents>>

\* UseCasesContainer.create, line 87: components.get(ref) for the next component
\* reference of the use case being built.
BuildUseCaseGet ==
    /\ phase = "use_cases"
    /\ Idle(LoopThread)
    /\ build.todo # <<>> /\ build.todo[1] # <<>>
    /\ Get(LoopThread, build.todo[1][1], Called(build.todo[1][1]))
    /\ build' = [build EXCEPT !.todo[1] = Tail(@)]
    /\ UNCHANGED todoAgents

\* UseCasesContainer.create, lines 62, 74 and 99-100: the class of the use case is
\* loaded, its agents are looked up and the use case is constructed; or one of
\* these raises.
BuildUseCase ==
    /\ phase = "use_cases"
    /\ Idle(LoopThread)
    /\ build.todo # <<>> /\ build.todo[1] = <<>>
    /\ \/ /\ build' = [build EXCEPT !.todo = Tail(@), !.use_cases = @ + 1]
          /\ UNCHANGED phase
       \/ phase' = propagate(phase) /\ UNCHANGED build
    /\ UNCHANGED <<settingsVars, callers, inputs, adapterClass, _cache, _lock, stack, work, ret, insts, connected,
                   get_client_calls, sd, shutdowns, todoAgents>>

\* UseCasesContainer.create, line 103, and AppContainer.build, lines 65-66: with
\* every use case built the container is returned.
BuildUseCases ==
    /\ phase = "use_cases"
    /\ Idle(LoopThread)
    /\ build.todo = <<>>
    /\ phase' = "built"
    /\ UNCHANGED <<settingsVars, callers, inputs, adapterClass, _cache, _lock, stack, work, ret, insts, connected,
                   get_client_calls, sd, shutdowns, todoAgents, build>>

\* ------------------------------------------------------------------ specification
Next ==
    \/ \E t \in Threads, ref \in RefInputs : GetCall(t, ref)
    \/ \E t \in Threads : GetEnter(t)
    \/ \E t \in Threads : InstantiateItem(t)
    \/ \E t \in Threads : Instantiate(t)
    \/ \E db \in DOMAIN insts : connect(db)
    \/ ShutdownCall
    \/ ShutdownHook
    \/ ShutdownClear
    \/ BuildGet
    \/ BuildAgent
    \/ BuildAgentsReturn
    \/ BuildUseCaseGet
    \/ BuildUseCase
    \/ BuildUseCases

Spec == Init /\ [][Next]_vars

\* The calls into the registry alone.
NextRegistry ==
    \/ \E t \in Threads, ref \in RefInputs : GetCall(t, ref)
    \/ \E t \in Threads : GetEnter(t)
    \/ \E t \in Threads : InstantiateItem(t)
    \/ \E t \in Threads : Instantiate(t)
    \/ \E db \in DOMAIN insts : connect(db)
    \/ ShutdownCall
    \/ ShutdownHook
    \/ ShutdownClear

SpecThreads == InitThreads /\ [][NextRegistry]_vars

\* The event loop's thread runs coroutines that call get() and the coroutine of
\* shutdown(), which others may run during.
InitAsync ==
    /\ callers = {LoopThread}
    /\ inputs = {LLMRef, DBRef}
    /\ adapterClass = PlainAdapter
    /\ Created
    /\ phase = "standalone" /\ todoAgents = <<>> /\ build = NoBuild

NextAsync ==
    \/ \E t \in Threads, ref \in RefInputs : GetCall(t, ref)
    \/ \E t \in Threads : GetEnter(t)
    \/ \E t \in Threads : InstantiateItem(t)
    \/ \E t \in Threads : Instantiate(t)
    \/ ShutdownCall
    \/ ShutdownHook
    \/ ShutdownAwait
    \/ \E ref \in RefInputs : AwaitedGetCall(ref)
    \/ ShutdownResume
    \/ ShutdownClear

SpecAsync == InitAsync /\ [][NextAsync]_vars

\* One thread that gets the repository and the database adapter, in every spelling,
\* on a registry created on its own and never shut down.
NestedInputs == {join(segments(r), sep) : r \in {RepoRef, DBRef}, sep \in {".", "/", "-"}}
InitNested ==
    /\ callers = {LoopThread}
    /\ inputs = NestedInputs
    /\ adapterClass = PlainAdapter
    /\ Created
    /\ phase = "standalone" /\ todoAgents = <<>> /\ build = NoBuild

NextGet ==
    \/ \E t \in Threads, ref \in NestedInputs : GetCall(t, ref)
    \/ \E t \in Threads : GetEnter(t)
    \/ \E t \in Threads : InstantiateItem(t)
    \/ \E t \in Threads : Instantiate(t)

\* A thread that can take a step takes one: the thread inside get() holds the lock
\* and nothing else runs.
SpecNested == InitNested /\ [][NextGet]_vars /\ WF_vars(NextGet)

\* ------------------------------------------------------------------ expansion
\* In the manifest and in what is substituted into it a string is the sequence of its
\* characters. \w of _VAR_RE: the letters of the model.
WordChars == {"F", "G", "e", "k", "o", "d", "s", "x", "y"}

\* A character that no placeholder starts at, or the match of _VAR_RE at the head of
\* the text: `\$(\w+)` with the longest run of word characters, else
\* `\$\{([^}]+)\}` up to the first "}". raw is m.group(0), var the group that matched.
Literal(text) == [var |-> <<>>, raw |-> <<text[1]>>]
match(text) ==
    IF text[1] # "$" \/ Len(text) < 2 THEN Literal(text)
    ELSE IF text[2] \in WordChars
    THEN LET n == CHOOSE n \in 2..Len(text) :
                    /\ \A j \in 2..n : text[j] \in WordChars
                    /\ n = Len(text) \/ text[n + 1] \notin WordChars
         IN  [var |-> SubSeq(text, 2, n), raw |-> SubSeq(text, 1, n)]
    ELSE IF text[2] = "{" /\ \E j \in 4..Len(text) : text[j] = "}" /\ text[3] # "}"
    THEN LET j == CHOOSE j \in 4..Len(text) :
                    text[j] = "}" /\ \A i \in 3..(j - 1) : text[i] # "}"
         IN  [var |-> SubSeq(text, 3, j - 1), raw |-> SubSeq(text, 1, j)]
    ELSE Literal(text)

\* The matches _VAR_RE.sub visits, from the left, with the characters between them.
RECURSIVE scan(_)
scan(text) ==
    IF text = <<>> THEN <<>>
    ELSE LET m == match(text)
         IN  <<m>> \o scan(SubSeq(text, Len(m.raw) + 1, Len(text)))

\* The mapping a lookup that prefers the .env file would use.
env_get_DotenvFirst(w, var) ==
    IF var \in DOMAIN w.dotenv /\ w.dotenv[var] # None THEN w.dotenv[var]
    ELSE IF var \in DOMAIN w.environ THEN w.environ[var]
    ELSE None

\* ChainMap(os.environ, dotenv_vars).get(var), lines 323-324 and 67: the .env
\* entries without a value are left out of dotenv_vars.
env_get(w, var) ==
    IF var \in DOMAIN w.environ THEN w.environ[var]
    ELSE IF var \in DOMAIN w.dotenv /\ w.dotenv[var] # None THEN w.dotenv[var]
    ELSE None

\* A path is the sequence of its components under the root. Path(var): the
\* components of var, without the empty ones and the "." ones.
path_parts(var) == SelectSeq(split(var, "/"), LAMBDA c : c # <<>> /\ c # <<".">>)
\* secrets_dir / var: an absolute var replaces secrets_dir.
path_join(dir, var) ==
    IF var[1] = "/" THEN path_parts(var) ELSE dir \o path_parts(var)

\* The file system follows "..": the path it reaches, or NoPath when a component
\* that is stepped through is no directory.
NoPath == << <<"?">> >>
RECURSIVE realpath(_, _, _)
realpath(done, todo, dirs) ==
    IF todo = <<>> THEN done
    ELSE IF todo[1] = <<".", ".">>
    THEN realpath(SubSeq(done, 1, Len(done) - 1), Tail(todo), dirs)
    ELSE IF Len(todo) > 1 /\ Append(done, todo[1]) \notin dirs THEN NoPath
    ELSE realpath(Append(done, todo[1]), Tail(todo), dirs)

\* str.rstrip("\n")
RECURSIVE rstrip(_)
rstrip(t) == IF t # <<>> /\ t[Len(t)] = "\n" THEN rstrip(SubSeq(t, 1, Len(t) - 1)) ELSE t

\* read_text(encoding="utf-8") raises for a file that holds a byte sequence that is
\* no UTF-8.
Decodable(contents) == \A i \in DOMAIN contents : contents[i] # "0xff"

\* repl, lines 62-76, for a match m: the replacement, the file read for it (a set),
\* and whether the value came from a variable or a file (secret).
repl(m, w) ==
    LET v == env_get(w, m.var)
        secret_path == realpath(<<>>, path_join(w.secrets_dir, m.var), w.dirs)
    IN  IF m.var = <<>>
        THEN [ok |-> TRUE, text |-> m.raw, read |-> {}, secret |-> FALSE]
        ELSE IF v # None
        THEN [ok |-> TRUE, text |-> v.v, read |-> {}, secret |-> TRUE]
        ELSE IF secret_path \in DOMAIN w.files
        THEN IF Decodable(w.files[secret_path])
             THEN [ok |-> TRUE, text |-> rstrip(w.files[secret_path]),
                   read |-> {secret_path}, secret |-> TRUE]
             ELSE [ok |-> FALSE, text |-> <<>>, read |-> {secret_path}, secret |-> FALSE]
        ELSE [ok |-> TRUE, text |-> m.raw, read |-> {}, secret |-> FALSE]

RECURSIVE concat(_)
concat(ts) == IF ts = <<>> THEN <<>> ELSE ts[1] \o concat(Tail(ts))

\* expandvars_with_secrets(text, env=..., secrets_dir=...): the expanded text, or the
\* exception of the first replacement that raises; with the files read and the
\* values substituted.
expandvars_with_secrets(text, w) ==
    LET ms == scan(text)
        rs == [i \in DOMAIN ms |-> repl(ms[i], w)]
        bad == {i \in DOMAIN rs : ~rs[i].ok}
        last == IF bad = {} THEN Len(rs) ELSE CHOOSE i \in bad : \A j \in bad : i <= j
    IN  [ok |-> bad = {},
         exc |-> IF bad = {} THEN NoExc ELSE Exc("UnicodeDecodeError", "", "read_text"),
         text |-> IF bad = {} THEN concat([i \in DOMAIN rs |-> rs[i].text]) ELSE <<>>,
         reads |-> UNION {rs[i].read : i \in 1..last},
         substituted |-> {rs[i].text : i \in {j \in 1..last : rs[j].secret}}]

\* ------------------------------------------------------------------ loading
\* No registry: the settings are used on their own.
NoRegistry ==
    /\ callers = {} /\ inputs = {} /\ adapterClass = PlainAdapter
    /\ _cache = <<>>
    /\ _lock = [owner |-> 0, count |-> 0]
    /\ stack = [t \in Threads |-> <<>>]
    /\ work = [t \in Threads |-> NoWork]
    /\ ret = NoRet
    /\ insts = <<>>
    /\ connected = {}
    /\ get_client_calls = {}
    /\ sd = SdIdle
    /\ shutdowns = 0
    /\ phase = "none" /\ todoAgents = <<>> /\ build = NoBuild

\* The process environment, the .env file and the file system the settings are
\* loaded in. SECRETS_DIR is unset: secrets_dir is /run/secrets (line 326).
secrets_dir == << <<"r", "u", "n">>, <<"s", "e", "c", "r", "e", "t", "s">> >>
Dirs == {<<>>, <<secrets_dir[1]>>, secrets_dir}
\* Files outside the secrets directory: /e and /run/e.
OutsideFiles == (<< <<"e">> >> :> <<"x">>) @@ (<<secrets_dir[1], <<"e">> >> :> <<"y">>)
\* What the file /run/secrets/F may hold: a value followed by newlines, newlines
\* alone, or bytes that are no UTF-8.
SecretContents ==
    {<<"s">> \o [i \in 1..n |-> "\n"] : n \in 0..MaxNewlines}
    \cup {<<"\n">>, <<"0xff">>}
Worlds ==
    {[environ |-> e, dotenv |-> d, files |-> OutsideFiles @@ f,
      dirs |-> Dirs, secrets_dir |-> secrets_dir] :
        e \in {<<>>, (<<"F">> :> Str(<<"o">>)), (<<"F">> :> Str(<<>>))},
        d \in {<<>>, (<<"F">> :> None), (<<"F">> :> Str(<<"d">>))},
        f \in {<<>>} \cup {(Append(secrets_dir, <<"F">>) :> c) : c \in SecretContents}}
PlainWorld == [environ |-> <<>>, dotenv |-> <<>>, files |-> OutsideFiles,
               dirs |-> Dirs, secrets_dir |-> secrets_dir]

\* The text of a scalar of the manifest: up to MaxPieces pieces, each a character
\* or a placeholder for F (which the environment may define), G (which nothing
\* defines) or a name that holds a path.
Pieces ==
    {<<"k">>, <<"$">>, <<"{">>, <<"}">>,
     <<"$", "F">>, <<"$", "{", "F", "}">>, <<"$", "{", "G", "}">>,
     <<"$", "{", "/", "e", "}">>, <<"$", "{", ".", ".", "/", "e", "}">>}
Texts == {concat(ps) : ps \in UNION {[1..n -> Pieces] : n \in 1..MaxPieces}}

\* The sources of pydantic-settings and the fields of AppSettings. A source defines
\* a field or not; the value it gives is named after the source.
Tiers == <<"init", "env", "dotenv", "secrets", "yaml">>
Fields == {"components", "agents", "use_cases"}
FieldSets == {{}, {"components"}, {"agents", "use_cases"}, Fields}

\* Sources that hold the manifest whatever the constructor got.
sources_AlwaysYaml(defined) == <<"init", "secrets", "yaml">>

\* settings_customise_sources, lines 408-427: the sources returned, in order. The
\* manifest is a source only when the constructor got no argument.
sources(defined) ==
    <<"init", "secrets">> \o (IF defined["init"] = {} THEN <<"yaml">> ELSE <<>>)

\* BaseSettings: a field takes the value of the first source that defines it, or
\* its default.
field_value(srcs, defined, field) ==
    IF \E i \in DOMAIN srcs : field \in defined[srcs[i]]
    THEN srcs[CHOOSE i \in DOMAIN srcs :
                /\ field \in defined[srcs[i]]
                /\ \A j \in 1..(i - 1) : field \notin defined[srcs[j]]]
    ELSE "default"

\* The manifest: one family with a literal api_key and one instance, whose param
\* uri is the scalar. yaml.safe_load gives None for an empty scalar.
ApiKey == <<"a", "b", "c">>
Scalar(text) == IF text = <<>> THEN None ELSE Str(text)
manifest_components(text) ==
    << [ref |-> LLMRef,
        api_key |-> SecretStr(ApiKey),
        params |-> << <<(<<"uri">>), Scalar(text)>> >>] >>

\* AppSettings.list_components, lines 557-582, and
\* SettingsResourceDiscovery.discover_components, on the instances of the tree.
list_components(tree) ==
    [i \in DOMAIN tree |->
        [ref |-> tree[i].ref, params |-> tree[i].params,
         api_key |-> IF tree[i].api_key # None THEN Str(<<"**********">>) ELSE None]]
discover_components(tree) ==
    [i \in DOMAIN tree |->
        [ref |-> tree[i].ref, params |-> tree[i].params,
         api_key_present |-> tree[i].api_key # None]]

NoExpansion == [ok |-> TRUE, exc |-> NoExc, text |-> <<>>, reads |-> {}, substituted |-> {}]

\* The texts of a scalar of a components tree given to the constructor.
InitTexts == {<<"$", "F">>, <<"$", "{", "F", "}">>}

\* AppSettings() is called: either the sources vary and the manifest is plain, or
\* the manifest and what it is expanded from vary and it is the only source, or
\* the constructor gets a components tree whose scalar holds a placeholder.
InitSettings ==
    /\ NoRegistry
    /\ lookup = NoLookup /\ mongo = NoMongo /\ retry = NoRetry
    /\ \E d \in [{Tiers[i] : i \in DOMAIN Tiers} -> FieldSets], w \in Worlds,
          t \in Texts \cup InitTexts :
          /\ \/ w = PlainWorld /\ t = <<"k">>
             \/ /\ t \in Texts
                /\ d = [x \in {Tiers[i] : i \in DOMAIN Tiers} |->
                           IF x = "yaml" THEN {"components"} ELSE {}]
             \/ /\ t \in InitTexts
                /\ d = [x \in {Tiers[i] : i \in DOMAIN Tiers} |->
                           IF x \in {"init", "yaml"} THEN {"components"} ELSE {}]
          /\ loader = [pc |-> "called", defined |-> d, world |-> w, text |-> t,
                       sources |-> <<>>, expansion |-> NoExpansion,
                       values |-> [f \in Fields |-> "default"], tree |-> <<>>,
                       listed |-> FALSE, listing |-> <<>>,
                       discovered |-> FALSE, discovery |-> <<>>]

\* settings_customise_sources: the manifest is read and expanded when it is a source
\* (EnvExpandingYamlSettingsSource.__init__, lines 319-337).
CustomiseSources ==
    /\ loader.pc = "called"
    /\ LET srcs == sources(loader.defined)
           e == IF \E i \in DOMAIN srcs : srcs[i] = "yaml"
                THEN expandvars_with_secrets(loader.text, loader.world) ELSE NoExpansion
       IN  loader' = [loader EXCEPT !.pc = IF e.ok THEN "sources" ELSE "failed",
                                    !.sources = srcs, !.expansion = e]
    /\ UNCHANGED <<registryVars, lookup, mongo, retry>>

\* BaseSettings.__init__: the fields are filled from the sources. The components of
\* the constructor hold their text as it was given, those of the manifest the
\* expanded text.
BuildSettings ==
    /\ loader.pc = "sources"
    /\ LET v == [f \in Fields |-> field_value(loader.sources, loader.defined, f)]
       IN  loader' = [loader EXCEPT !.pc = "loaded", !.values = v,
                         !.tree = IF v["components"] = "yaml"
                                  THEN manifest_components(loader.expansion.text)
                                  ELSE IF v["components"] = "init"
                                  THEN manifest_components(loader.text) ELSE <<>>]
    /\ UNCHANGED <<registryVars, lookup, mongo, retry>>

ListComponents ==
    /\ loader.pc = "loaded" /\ ~loader.listed
    /\ loader' = [loader EXCEPT !.listed = TRUE, !.listing = list_components(loader.tree)]
    /\ UNCHANGED <<registryVars, lookup, mongo, retry>>

DiscoverComponents ==
    /\ loader.pc = "loaded" /\ ~loader.discovered
    /\ loader' = [loader EXCEPT !.discovered = TRUE,
                                !.discovery = discover_components(loader.tree)]
    /\ UNCHANGED <<registryVars, lookup, mongo, retry>>

NextSettings ==
    \/ CustomiseSources
    \/ BuildSettings
    \/ ListComponents
    \/ DiscoverComponents

SpecSettings == InitSettings /\ [][NextSettings]_vars

\* ------------------------------------------------------------------ resolution
\* The references given to resolve_ref: up to MaxSegs names joined by one of the
\* separators. The names are those of the declared entries, "agents", and a
\* framework whose name ends in "agents".
\* AppSettings.list_components, line 569: the "ref" of each declared instance,
\* f"{comp_type}.{framework}.{family_name}.{instance_name}".
DeclaredInstances ==
    UNION {UNION {UNION {{<<t, f, fam, i>> : i \in DOMAIN components[t][f][fam].instances} :
                         fam \in DOMAIN components[t][f]} :
                  f \in DOMAIN components[t]} :
           t \in DOMAIN components}
listed_refs == {join(names, ".") : names \in DeclaredInstances}

ComponentNames == {<<"llms">>, <<"langchain">>, <<"groq">>, <<"default">>}
AgentNames == {<<"agents">>, <<"langchain">>, <<"basic_answer">>, <<"multi_", "agents">>}
Refs(Names) ==
    {join(segs, sep) : segs \in UNION {[1..n -> Names] : n \in 1..MaxSegs},
                       sep \in {".", "/", "-"}}
LookupInputs ==
    {[ref |-> r, ref_type |-> "component"] : r \in Refs(ComponentNames) \cup listed_refs}
    \cup {[ref |-> r, ref_type |-> k] : r \in Refs(AgentNames), k \in {"agent", "use_case"}}

NoOut == [ok |-> FALSE, exc |-> NoExc, target |-> <<>>]

InitResolve ==
    /\ NoRegistry
    /\ loader = NoLoader /\ mongo = NoMongo /\ retry = NoRetry
    /\ \E i \in LookupInputs :
          lookup = [pc |-> "ref", ref |-> i.ref, ref_type |-> i.ref_type,
                    resolved |-> FALSE, out |-> NoOut, looked |-> FALSE, agent |-> NoOut]

\* settings.resolve_ref(ref, ref_type) is called.
ResolveRef ==
    /\ lookup.pc = "ref" /\ ~lookup.resolved
    /\ lookup' = [lookup EXCEPT !.resolved = TRUE,
                                !.out = resolve_ref_type(lookup.ref, lookup.ref_type)]
    /\ UNCHANGED <<registryVars, loader, mongo, retry>>

\* UseCasesContainer.create reaches a use case that declares the reference as one
\* of its agents.
UseCaseAgentGet ==
    /\ lookup.pc = "ref" /\ lookup.ref_type = "agent" /\ ~lookup.looked
    /\ lookup' = [lookup EXCEPT !.looked = TRUE, !.agent = use_case_agent(lookup.ref)]
    /\ UNCHANGED <<registryVars, loader, mongo, retry>>

NextResolve ==
    \/ ResolveRef
    \/ UseCaseAgentGet

SpecResolve == InitResolve /\ [][NextResolve]_vars

\* ------------------------------------------------------------------ mongo engine
\* What the ping of connect() may do: answer, raise one of the two exceptions the
\* handler of connect() names, or raise another one (an authentication failure).
PingOutcomes ==
    {Returned,
     Raise("ConnectionFailure", "", "ping"),
     Raise("ServerSelectionTimeoutError", "", "ping"),
     Raise("OperationFailure", "", "ping")}
\* What AsyncIOMotorClient.close() may do.
CloseOutcomes == {Returned, Raise("Exception", "", "close")}

\* MongoEngineAdapter.__init__, lines 40-43: both fields are None. A field is modelled
\* by whether it is set.
InitMongo ==
    /\ NoRegistry
    /\ lookup = NoLookup /\ loader = NoLoader /\ retry = NoRetry
    /\ mongo = [pc |-> "adapter", _motor_client |-> FALSE, _engine |-> FALSE, log |-> <<>>]

\* A call on the adapter ended: the fields it leaves and its outcome, logged.
Called_mongo(op, client, engine, out) ==
    /\ Len(mongo.log) < MaxCalls
    /\ mongo' = [mongo EXCEPT !._motor_client = client, !._engine = engine,
                              !.log = Append(@, [op |-> op, ok |-> out.ok, exc |-> out.exc])]
    /\ UNCHANGED <<registryVars, lookup, loader, retry>>

\* `except (ConnectionFailure, ServerSelectionTimeoutError)`, line 73
connection_error(exc) == exc.type \in {"ConnectionFailure", "ServerSelectionTimeoutError"}

\* MongoEngineAdapter.connect, lines 52-81
MongoConnect ==
    /\ mongo.pc = "adapter"
    /\ IF mongo._motor_client
       THEN Called_mongo("connect", mongo._motor_client, mongo._engine, Returned)
       ELSE \E ping \in PingOutcomes :
              IF ping.ok
              THEN Called_mongo("connect", TRUE, TRUE, Returned)
              ELSE IF connection_error(ping.exc)
              THEN Called_mongo("connect", FALSE, FALSE,
                                Raise("ComponentConnectionException", "", "connect"))
              ELSE Called_mongo("connect", TRUE, mongo._engine, ping)

\* MongoEngineAdapter.disconnect, lines 91-110
MongoDisconnect ==
    /\ mongo.pc = "adapter"
    /\ IF ~mongo._motor_client
       THEN Called_mongo("disconnect", mongo._motor_client, mongo._engine, Returned)
       ELSE \E close \in CloseOutcomes :
              Called_mongo("disconnect", FALSE, FALSE,
                           IF close.ok THEN Returned
                           ELSE Raise("ComponentOperationException", "", "disconnect"))

\* MongoEngineAdapter.get_engine, lines 124-130
MongoGetEngine ==
    /\ mongo.pc = "adapter"
    /\ Called_mongo("get_engine", mongo._motor_client, mongo._engine,
                    IF mongo._engine THEN Returned
                    ELSE Raise("ComponentOperationException", "", "get_engine"))

\* MongoEngineAdapter.get_motor_client, lines 145-151
MongoGetMotorClient ==
    /\ mongo.pc = "adapter"
    /\ Called_mongo("get_motor_client", mongo._motor_client, mongo._engine,
                    IF mongo._motor_client THEN Returned
                    ELSE Raise("ComponentOperationException", "", "get_motor_client"))

NextMongo ==
    \/ MongoConnect
    \/ MongoDisconnect
    \/ MongoGetEngine
    \/ MongoGetMotorClient

SpecMongo == InitMongo /\ [][NextMongo]_vars

\* ------------------------------------------------------------------ model retry
\* What one call of the handler may do: return a response, raise an exception that
\* derives from Exception, or raise one that does not (the task was cancelled).
HandlerOutcomes ==
    {Returned,
     Raise("TimeoutError", "", "handler"),
     Raise("RateLimitError", "", "handler"),
     Raise("ValueError", "", "handler"),
     Raise("CancelledError", "", "handler")}

\* ModelRetryMiddleware.__init__, lines 33-36, and the entry of awrap_model_call:
\* no attempt made yet.
InitRetry ==
    /\ NoRegistry
    /\ lookup = NoLookup /\ loader = NoLoader /\ mongo = NoMongo
    /\ \E n \in -1..MaxAttempts :
          retry = [pc |-> "loop", max_attempts |-> n, attempt |-> 0,
                   outcomes |-> <<>>, out |-> Returned]

\* `except Exception`, line 47, with a mutant that takes nothing
handles_Nothing(exc) == FALSE
handles(exc) == exc.type # "CancelledError"

\* `attempt == self.max_attempts - 1`, line 49
last_attempt(attempt, max_attempts) == attempt = max_attempts - 1

\* The call ends with this outcome.
RetryEnds(outcomes, out) ==
    retry' = [retry EXCEPT !.pc = "done", !.outcomes = outcomes, !.out = out]

\* One iteration of the loop of awrap_model_call, lines 44-60: the handler is called
\* once.
RetryAttempt ==
    /\ retry.pc = "loop"
    /\ retry.attempt < retry.max_attempts
    /\ \E h \in HandlerOutcomes :
          LET outcomes == Append(retry.outcomes, h) IN
          IF h.ok
          THEN RetryEnds(outcomes, Returned)
          ELSE IF ~handles(h.exc)
          THEN RetryEnds(outcomes, h)
          ELSE IF last_attempt(retry.attempt, retry.max_attempts)
          THEN RetryEnds(outcomes, Raise("LLMCallException", h.exc.type, "awrap_model_call"))
          ELSE retry' = [retry EXCEPT !.attempt = @ + 1, !.outcomes = outcomes]
    /\ UNCHANGED <<registryVars, lookup, loader, mongo>>

\* The loop of awrap_model_call is over without a return, lines 62-66.
RetryFallsThrough ==
    /\ retry.pc = "loop"
    /\ retry.attempt >= retry.max_attempts
    /\ RetryEnds(retry.outcomes, Raise("LLMCallException", "", "awrap_model_call"))
    /\ UNCHANGED <<registryVars, lookup, loader, mongo>>

NextRetry ==
    \/ RetryAttempt
    \/ RetryFallsThrough

SpecRetry == InitRetry /\ [][NextRetry]_vars

\* ------------------------------------------------------------------ claims
\* The key whose construction the last get() ended with.
RetKey == IF ret.ok THEN cache_key(ret.ref) ELSE ret.failed
\* The class that key resolves to, and whether it has a strategy.
RetClass == resolve_ref(RetKey).module_class
Available(name) == \E o \in Strategies(RetClass, <<>>) : o[name] # Absent
\* The last get() went as far as constructing.
Constructed == ret.op = "get" /\ ret.attempted # <<>>

\* C1: under concurrent callers of get() a reference is constructed once between
\* two cache clears, and every caller that returns gets that one instance.
C1_SingleCreation ==
    /\ \A i, j \in DOMAIN insts :
          insts[i].key = insts[j].key /\ insts[i].epoch = insts[j].epoch => i = j
    /\ (ret.op = "get" /\ ret.ok) =>
          /\ ret.inst \in DOMAIN insts
          /\ insts[ret.inst].key = cache_key(ret.ref)
          /\ insts[ret.inst].epoch = ret.epoch

\* A caller that called while the reference was uncached, waited for the lock and
\* got the instance another thread had constructed meanwhile.
C1_Raced ==
    /\ ret.op = "get" /\ ret.ok /\ ret.raced /\ ret.instantiations = 0
    /\ Cardinality({i \in DOMAIN insts : insts[i].key = cache_key(ret.ref)}) = 1

\* C2 as stated: over get() and shutdown() calls a reference is never instantiated
\* a second time.
C2_InstantiatedOnce ==
    \A i, j \in DOMAIN insts : insts[i].key = insts[j].key => i = j

\* C2 as amended: a cache entry keeps its instance until shutdown() clears the
\* cache, and a reference is instantiated only while it has no entry.
C2_EntryFixedUntilShutdown ==
    [][/\ \/ _cache' = <<>> /\ shutdowns' = shutdowns + 1
          \/ \A e \in DOMAIN _cache : e \in DOMAIN _cache' /\ _cache'[e] = _cache[e]
       /\ \A i \in DOMAIN insts' \ DOMAIN insts :
             \A e \in DOMAIN _cache : _cache[e].key # insts'[i].key]_vars

\* A reference instantiated again by a get() after a shutdown().
C2_ReinstantiatedAfterShutdown ==
    \E i, j \in DOMAIN insts :
        /\ insts[i].key = insts[j].key /\ insts[i].epoch < insts[j].epoch
        /\ InCache(insts[j].key) /\ Cached(insts[j].key) = j

\* C3: a get(ref) that directly follows a get(ref) that returned gives the same
\* instance, with no resolution and no instantiation.
C3_SecondGetReturnsCached ==
    (ret.op = "get" /\ ret.after.inst # NoInst /\ ret.after.ref = ret.ref) =>
        /\ ret.ok /\ ret.inst = ret.after.inst
        /\ ret.resolutions = 0 /\ ret.instantiations = 0

C3_SecondGet ==
    ret.op = "get" /\ ret.ok /\ ret.after.inst # NoInst /\ ret.after.ref = ret.ref

\* C4: the spellings of four segments with '/', '-' and '.' share one cache entry:
\* a get() in one spelling that follows a get() in another returns the same
\* instance with no instantiation, and no two entries or instances of one lifetime
\* of the cache have the same segments.
C4_SpellingsShareEntry ==
    /\ \A i \in DOMAIN _cache : \A j \in (i + 1)..Len(_cache) :
          segments(_cache[i].key) # segments(_cache[j].key)
    /\ \A i \in DOMAIN insts : \A j \in (i + 1)..Len(insts) :
          insts[i].epoch = insts[j].epoch => segments(insts[i].key) # segments(insts[j].key)
    /\ (ret.op = "get" /\ ret.after.inst # NoInst /\ ret.after.ref # ret.ref) =>
          ret.ok /\ ret.inst = ret.after.inst /\ ret.instantiations = 0

C4_OtherSpelling ==
    /\ ret.op = "get" /\ ret.ok /\ ret.after.inst # NoInst /\ ret.after.ref # ret.ref
    /\ Len(segments(ret.ref)) = 4

C6_ConfigFallback ==
    (Constructed /\ ret.attempted[1] = "kwargs" /\ ~ret.outs[1].ok) =>
        IF UnexpectedKeyword(ret.outs[1])
        THEN /\ ret.attempted = <<"kwargs", "config">>
             /\ ret.outs[2].ok =>
                   /\ ret.ok
                   /\ InCache(cache_key(ret.ref)) /\ Cached(cache_key(ret.ref)) = ret.inst
        ELSE /\ ret.attempted = <<"kwargs">>
             /\ ~ret.ok /\ ret.exc = ret.outs[1].exc

C6_ConfigSucceeded ==
    Constructed /\ ret.ok /\ ret.attempted = <<"kwargs", "config">>

\* C7 as stated: when every attempted strategy failed, the caller gets the
\* exception of the last strategy attempted.
C7_LastException ==
    (Constructed /\ ~ret.ok) => ret.exc = ret.outs[Len(ret.outs)].exc

\* C7 as amended: the caller gets the exception of the last strategy attempted,
\* unless config-dict construction raised a TypeError: then it gets the
\* unexpected-keyword error of keyword construction.
C7_LastExceptionButTypeError ==
    (Constructed /\ ~ret.ok) =>
        IF Len(ret.outs) = 2 /\ ret.outs[2].exc.type = "TypeError"
        THEN ret.exc = ret.outs[1].exc
        ELSE ret.exc = ret.outs[Len(ret.outs)].exc

C7_BothConstructionsFailed ==
    /\ Constructed /\ ~ret.ok /\ ret.attempted = <<"kwargs", "config">>
    /\ ret.outs[2].exc.type = "TypeError" /\ ret.exc = ret.outs[1].exc

\* C8: whatever the cleanup hooks raise, shutdown() calls every hook of every cached
\* component, leaves the cache empty and returns.
C8_ShutdownIsolation ==
    ret.op = "shutdown" =>
        /\ ret.ok
        /\ _cache = <<>>
        /\ \A e \in DOMAIN ret.cached : \A name \in {"aclose", "close"} :
              has_hook(ret.cached[e].inst, name) =>
                  \E k \in DOMAIN ret.hooks_called :
                      /\ ret.hooks_called[k].inst = ret.cached[e].inst
                      /\ ret.hooks_called[k].name = name

\* A hook raised and a hook of another component was called after it.
C8_HookRaisedOthersCalled ==
    /\ ret.op = "shutdown" /\ ret.ok
    /\ \E k, l \in DOMAIN ret.hooks_called :
          /\ k < l
          /\ ~ret.hooks_called[k].ok
          /\ ret.hooks_called[l].inst # ret.hooks_called[k].inst

\* C9 as stated: shutdown() calls one cleanup hook per cached instance, aclose()
\* when the instance has it.
C9_OneHookPerInstance ==
    ret.op = "shutdown" =>
        \A e \in DOMAIN ret.cached :
            LET calls == {k \in DOMAIN ret.hooks_called :
                             ret.hooks_called[k].inst = ret.cached[e].inst}
            IN  /\ Cardinality(calls) <= 1
                /\ has_hook(ret.cached[e].inst, "aclose") =>
                      \A k \in calls : ret.hooks_called[k].name = "aclose"

\* C10 as stated: during the build, get_client() is called only on a database
\* adapter that has been connected.
C10_ConnectedBeforeUse ==
    \A c \in get_client_calls : c.phase = "agents" => c.connected

\* The activations of _instantiate whose cfg loop is done: the construction is next.
ReadyFrames ==
    {f \in {stack[t][Len(stack[t])] : t \in {u \in Threads : stack[u] # <<>>}} : f.todo = <<>>}
\* The items of the resolved configuration whose key ends in _ref.
RefItems(cfg) == {i \in DOMAIN cfg : endswith_ref(cfg[i][1]) /\ cfg[i][2].type = "str"}

\* C11: when the construction of a component is next, and in every construction
\* made, no key ending in _ref holds a string, and each such parameter of the
\* configuration is passed under the key without _ref, bound to the instance that
\* is cached for the reference it named.
C11_RefsResolvedBeforeConstruction ==
    /\ \A f \in ReadyFrames :
          LET cfg == resolve_ref(f.ref).cfg IN
          /\ RefItems(f.resolved_cfg) = {}
          /\ \A i \in RefItems(cfg) :
                LET key == cfg[i][1]
                    param == dict_get(f.resolved_cfg, SubSeq(key, 1, Len(key) - 1))
                    dep == cache_key(cfg[i][2].v)
                IN  /\ ~has_key(f.resolved_cfg, key)
                    /\ param.type = "instance"
                    /\ InCache(dep) /\ Cached(dep) = param.v[1]
    /\ \A n \in DOMAIN insts :
          LET cfg == resolve_ref(insts[n].key).cfg IN
          /\ RefItems(insts[n].kwargs) = {}
          /\ \A i \in RefItems(cfg) :
                LET key == cfg[i][1]
                    param == dict_get(insts[n].kwargs, SubSeq(key, 1, Len(key) - 1))
                IN  /\ ~has_key(insts[n].kwargs, key)
                    /\ param.type = "instance"
                    /\ param.v[1] < n
                    /\ insts[param.v[1]].key = cache_key(cfg[i][2].v)
                    /\ insts[param.v[1]].epoch = insts[n].epoch

\* The checkpointer is about to be constructed with the database adapter that its
\* database_ref named.
C11_DependencyBound ==
    \E f \in ReadyFrames :
        /\ f.key = CPRef
        /\ dict_get(f.resolved_cfg, <<"database">>).type = "instance"
        /\ insts[dict_get(f.resolved_cfg, <<"database">>).v[1]].key = DBRef

\* The declared components: the references that resolve, normalized.
Declared == {cache_key(r) : r \in {x \in RefInputs : resolve_ref(x).ok}}
\* The family and the instance a declared key names.
FamilyOf(key) ==
    LET parts == split(key, ".") IN components[parts[1]][parts[2]][parts[3]]
ParamsOf(key) == FamilyOf(key).instances[split(key, ".")[4]].params
WithApiKey == {key \in Declared : FamilyOf(key).constructor.api_key # None}
\* What resolve_ref returns for each declared key.
ResolvedKeys == [key \in Declared |-> resolve_ref(key)]
\* resolve_ref binds api_key to the family's secret, still wrapped, in place of any
\* api_key of the instance, and returns the other params as they are.
SecretBound ==
    \A key \in WithApiKey :
        LET cfg == ResolvedKeys[key].cfg
            secret == FamilyOf(key).constructor.api_key
        IN  /\ secret.type = "SecretStr"
            /\ dict_get(cfg, <<"api_key">>) = secret
            /\ keys(cfg) = keys(ParamsOf(key)) \cup {<<"api_key">>}
            /\ Len(cfg) = Cardinality(keys(cfg))
            /\ \A k \in keys(cfg) \ {<<"api_key">>} : dict_get(cfg, k) = dict_get(ParamsOf(key), k)

\* C17: for a family with an api_key, resolve_ref returns the instance's params
\* with api_key bound to the family's secret, still wrapped, in place of any api_key
\* of the instance; the construction gets the raw string under api_key and the
\* other params as they are, and the instance is cached under the normalized key.
C17_SecretUnwrappedAtConstruction ==
    /\ SecretBound
    /\ \A t \in Threads : \A n \in DOMAIN stack[t] : \A i \in DOMAIN stack[t][n].todo :
          stack[t][n].todo[i][1] = <<"api_key">> /\ stack[t][n].key \in WithApiKey
              => stack[t][n].todo[i][2].type = "SecretStr"
    /\ \A n \in DOMAIN insts :
          insts[n].key \in WithApiKey =>
              LET cfg == ResolvedKeys[insts[n].key].cfg
                  secret == FamilyOf(insts[n].key).constructor.api_key
              IN  /\ dict_get(insts[n].kwargs, <<"api_key">>) = Str(secret.v)
                  /\ keys(insts[n].kwargs) = keys(cfg)
                  /\ \A k \in keys(cfg) \ {<<"api_key">>} :
                        dict_get(insts[n].kwargs, k) = dict_get(cfg, k)
                  /\ insts[n].epoch = shutdowns =>
                        InCache(insts[n].key) /\ Cached(insts[n].key) = n

\* The instance "creative", which has an api_key of its own, constructed with the
\* family's key, and the spec's scenario: temperature 0.1 and api_key "abc123".
C17_FamilyKeyPassed ==
    /\ \E n \in DOMAIN insts :
          /\ insts[n].key = LLM2Ref
          /\ dict_get(insts[n].kwargs, <<"api_key">>) = Str(<<"abc123">>)
          /\ InCache(LLM2Ref) /\ Cached(LLM2Ref) = n
    /\ \E n \in DOMAIN insts :
          /\ insts[n].key = LLMRef
          /\ insts[n].kwargs = << <<(<<"temperature">>), Float(<<"0.1">>)>>,
                                  <<(<<"api_key">>), Str(<<"abc123">>)>> >>

\* The names of a reference, and those left when one leading "agents" is taken off.
WithoutAgents(segs) ==
    IF Len(segs) > 1 /\ segs[1] = <<"agents">> THEN Tail(segs) ELSE segs
ArityError(out) == ~out.ok /\ out.exc.type = "ValueError"
Arity(ref_type) == IF ref_type = "component" THEN 4 ELSE IF ref_type = "agent" THEN 2 ELSE 1

\* C18: a component reference that has not 4 names, and an agent reference that has
\* not 2 names once a leading "agents" is taken off, is refused with the arity
\* error; a reference that resolves names exactly the entry found.
C18_ArityChecked ==
    (lookup.pc = "ref" /\ lookup.resolved /\ lookup.ref_type \in {"component", "agent"}) =>
        LET segs == IF lookup.ref_type = "agent"
                    THEN WithoutAgents(segments(lookup.ref)) ELSE segments(lookup.ref)
        IN  /\ Len(segs) # Arity(lookup.ref_type) => ArityError(lookup.out)
            /\ Len(segs) = Arity(lookup.ref_type) => ~ArityError(lookup.out)
            /\ lookup.out.ok => lookup.out.target = segs

\* A reference of five names whose first four name a declared component is refused.
C18_LongReferenceRefused ==
    /\ lookup.pc = "ref" /\ lookup.resolved /\ lookup.ref_type = "component"
    /\ Len(segments(lookup.ref)) = 5
    /\ join(SubSeq(segments(lookup.ref), 1, 4), ".") = LLMRef
    /\ ArityError(lookup.out)

\* C19 as stated: a use case reference of more than one name is refused with the
\* arity error.
C19_UseCaseArityChecked ==
    (lookup.pc = "ref" /\ lookup.resolved /\ lookup.ref_type = "use_case"
        /\ Len(segments(lookup.ref)) > 1) => ArityError(lookup.out)

\* C20 as stated: the agent a use case gets for a declared reference is the agent
\* resolve_ref finds for it.
C20_SameAgent ==
    (lookup.pc = "ref" /\ lookup.resolved /\ lookup.looked) =>
        /\ lookup.agent.ok = lookup.out.ok
        /\ lookup.out.ok => lookup.agent.target = join(lookup.out.target, ".")

\* The manifest was a source and its text has been expanded (or the expansion raised).
Expanded ==
    /\ loader.pc \in {"sources", "loaded", "failed"}
    /\ \E i \in DOMAIN loader.sources : loader.sources[i] = "yaml"

\* A text with one placeholder for the variable var: `$var` not followed by a word
\* character, or `${var}`; with at most one character before and after it.
Around == {<<>>} \cup {<<c>> : c \in {"k", "$", "{", "}"}}
Holders(var) ==
    {[pre |-> a, raw |-> <<"$">> \o var, post |-> b] : a \in Around, b \in Around \ {<<"k">>}}
    \cup {[pre |-> a, raw |-> <<"$", "{">> \o var \o <<"}">>, post |-> b] :
            a \in Around, b \in Around}
Holds(h) == h.pre \o h.raw \o h.post
\* contents is value followed by newlines only.
UpToNewlines(contents, value) ==
    \E n \in 0..Len(contents) :
        /\ value = SubSeq(contents, 1, Len(contents) - n)
        /\ \A i \in (Len(contents) - n + 1)..Len(contents) : contents[i] = "\n"
SecretFile(var) == Append(secrets_dir, var)

\* C13: a placeholder is replaced by the value of the variable in the OS
\* environment (an empty value included); else by its value in the .env file; else
\* by the contents of the file <secrets_dir>/<var>, up to the newlines that end it;
\* else it is left as it is, and the expansion does not raise.
C13_ExpansionPriority ==
    \A var \in {<<"F">>, <<"G">>} : \A h \in Holders(var) :
        (Expanded /\ loader.text = Holds(h)) =>
            LET w == loader.world
                e == loader.expansion
            IN  IF var \in DOMAIN w.environ
                THEN e.ok /\ e.text = h.pre \o w.environ[var].v \o h.post
                ELSE IF var \in DOMAIN w.dotenv /\ w.dotenv[var] # None
                THEN e.ok /\ e.text = h.pre \o w.dotenv[var].v \o h.post
                ELSE IF SecretFile(var) \in DOMAIN w.files
                THEN e.ok =>
                        \E n \in 0..Len(w.files[SecretFile(var)]) :
                            LET value == SubSeq(w.files[SecretFile(var)], 1, n) IN
                            /\ UpToNewlines(w.files[SecretFile(var)], value)
                            /\ e.text = h.pre \o value \o h.post
                ELSE e.ok /\ e.text = loader.text
\* C13 witness: the OS environment and the .env file both define F, and the
\* placeholder has been replaced by the value of the OS environment.
C13_OsEnvWins ==
    /\ Expanded
    /\ loader.text = <<"$", "{", "F", "}">>
    /\ <<"F">> \in DOMAIN loader.world.environ
    /\ <<"F">> \in DOMAIN loader.world.dotenv
    /\ loader.world.dotenv[<<"F">>] = Str(<<"d">>)
    /\ loader.expansion.text = <<"o">>

\* The placeholder ${F} is all the text, and nothing but the file
\* <secrets_dir>/F, which can be decoded, gives F a value.
FromSecretFile ==
    /\ Expanded
    /\ loader.text = <<"$", "{", "F", "}">>
    /\ env_get(loader.world, <<"F">>) = None
    /\ SecretFile(<<"F">>) \in DOMAIN loader.world.files
    /\ Decodable(loader.world.files[SecretFile(<<"F">>)])
\* contents without its last character when that is a newline.
StripOneNewline(contents) ==
    IF contents # <<>> /\ contents[Len(contents)] = "\n"
    THEN SubSeq(contents, 1, Len(contents) - 1) ELSE contents

\* C14: the value taken from a secret file is the contents of the file with one
\* newline removed from its end when there is one, and never more than one.
C14_OneNewlineStripped ==
    FromSecretFile =>
        loader.expansion.text = StripOneNewline(loader.world.files[SecretFile(<<"F">>)])

\* C15: every file the expansion reads lies directly inside the secrets directory,
\* whatever the name in the placeholder.
C15_ReadsInsideSecretsDir ==
    Expanded =>
        \A path \in loader.expansion.reads :
            /\ Len(path) = Len(secrets_dir) + 1
            /\ SubSeq(path, 1, Len(secrets_dir)) = secrets_dir

\* sub occurs in text.
Occurs(sub, text) ==
    \E i \in 1..(Len(text) - Len(sub) + 1) : SubSeq(text, i, i + Len(sub) - 1) = sub
\* The plaintexts of the secrets of the loaded tree: the api_key of the family and
\* the values the expansion put into the manifest.
Plaintexts == {ApiKey} \cup (loader.expansion.substituted \ {<<>>})
\* The strings an entry of a listing shows.
Shown(entry) ==
    {entry.params[j][2].v : j \in {x \in DOMAIN entry.params : entry.params[x][2] # None}}
    \cup (IF "api_key" \in DOMAIN entry /\ entry.api_key # None
          THEN {entry.api_key.v} ELSE {})

\* C16: no string shown by list_components() or by the discovery service holds the
\* plaintext of a secret, be it the api_key of a family or a value that the
\* expansion of a placeholder put into the params.
C16_ListingsHideSecrets ==
    /\ loader.listed =>
          \A i \in DOMAIN loader.listing : \A t \in Shown(loader.listing[i]) :
              \A secret \in Plaintexts : ~Occurs(secret, t)
    /\ loader.discovered =>
          \A i \in DOMAIN loader.discovery : \A t \in Shown(loader.discovery[i]) :
              \A secret \in Plaintexts : ~Occurs(secret, t)

\* C12: every field of the loaded settings has the value of the highest tier that
\* defines it, in the order constructor, OS environment, .env file, secret files,
\* manifest; or its default when no tier defines it.
C12_HighestTierWins ==
    loader.pc = "loaded" =>
        \A f \in Fields : loader.values[f] = field_value(Tiers, loader.defined, f)

\* The constructor got arguments and the settings are loaded.
FromConstructor == loader.pc = "loaded" /\ loader.defined["init"] # {}

Untouched == ret = NoRet /\ \A t \in Threads : stack[t] = <<>> /\ ~work[t].pending /\ sd.pc = "idle"
\* The phases of AppContainer.build follow each other: no use case is set up and no
\* container of agents exists while agents are built, and no agent is left to build
\* once the use cases are set up.
PhasesInOrder ==
    /\ phase = "agents" => ~build.returned /\ build.use_cases = 0
    /\ phase \in {"use_cases", "built"} => build.returned /\ todoAgents = <<>>
    /\ phase = "built" => build.todo = <<>>
\* A step that constructs an instance is a step of a get(): the instance is that of
\* the innermost frame of a thread, and each frame above the outermost is there for
\* a `_ref` parameter of the frame under it.
ConstructedForGet ==
    Len(insts') > Len(insts) =>
        \E t \in Threads :
            /\ stack[t] # <<>>
            /\ insts'[Len(insts')].key = stack[t][Len(stack[t])].key
            /\ \A i \in 1..(Len(stack[t]) - 1) :
                  /\ stack[t][i].todo # <<>>
                  /\ endswith_ref(stack[t][i].todo[1][1])
                  /\ stack[t][i].todo[1][2] = Str(stack[t][i + 1].ref)

GetRaisedInBuild ==
    /\ ret.op = "get" /\ ~ret.ok
    /\ phase \notin {"standalone", "built"}
\* AgentsContainer.create was left by an exception: agents are left to build.
AgentsFailed == phase = "failed" /\ todoAgents # <<>>

\* C23: when a get() for a component of an agent raises, or the agent's class cannot
\* be loaded or constructed, AppContainer.build fails; no container of agents is
\* returned, whatever the agents built before, no use case is set up, and the
\* failed build builds nothing more.
C23_NoPartialAgents ==
    /\ [](GetRaisedInBuild => phase = "failed")
    /\ [](AgentsFailed => ~build.returned /\ build.use_cases = 0)
    /\ [][phase = "failed" =>
            phase' = "failed" /\ build' = build /\ todoAgents' = todoAgents]_vars
\* C23 witness: one agent was built, the get() for a component of the next raised,
\* and the build has failed without a container of agents.
C23_SecondAgentFailed ==
    /\ AgentsFailed
    /\ build.agents = 1
    /\ ret.op = "get" /\ ~ret.ok
    /\ ~build.returned

GetFailed == ret.op = "get" /\ ~ret.ok
\* The entries the last get() added to the cache, the cache being the one the call
\* found with entries added at its end.
Kept == Len(ret.before) <= Len(_cache) /\ SubSeq(_cache, 1, Len(ret.before)) = ret.before
Added == {_cache[i] : i \in (Len(ret.before) + 1)..Len(_cache)}

\* C25 as stated: a get() that fails leaves the cache as it was when it was called.
C25_CacheUntouched == GetFailed => _cache = ret.before
\* C25: a get(ref) that fails keeps every entry the cache had, and adds none for ref
\* and none for the component whose resolution or construction raised; the entries
\* it adds are for components reached through `_ref` parameters that were
\* constructed before the failure.
C25_OnlyBuiltDependenciesAdded ==
    GetFailed =>
        /\ Kept
        /\ \A e \in Added :
              /\ segments(e.key) # segments(ret.ref)
              /\ e.key # ret.failed
              /\ insts[e.inst].key = e.key
              /\ ret.instantiations > 1
\* C25 witness: the get() of the checkpointer raised after it had the database
\* adapter constructed, which was not cached before and is now.
C25_DependencyStaysCached ==
    /\ GetFailed
    /\ segments(ret.ref) = segments(CPRef)
    /\ ret.before # <<>>
    /\ Added # {}

\* The references reached from the repository: itself and the database adapter.
Reached == {cache_key(RepoRef), cache_key(DBRef)}
\* The thread inside get() owns the lock, taken once per frame.
Reentered ==
    \A t \in Threads :
        stack[t] # <<>> => _lock.owner = t /\ _lock.count = Len(stack[t])
\* A get() of the repository on an empty cache returned.
RepoBuilt ==
    /\ ret.op = "get" /\ ret.ok
    /\ segments(ret.ref) = segments(RepoRef)
    /\ ret.before = <<>>

\* C27: a get() that is called completes, by returning or raising; the nested get()
\* calls take the lock their thread holds; and a get() of the repository that
\* returns has instantiated the repository and the database adapter, which it
\* reaches through two parameters, once each.
C27_TerminatesEachOnce ==
    /\ []Reentered
    /\ [](RepoBuilt =>
            /\ ret.instantiations = 2
            /\ {insts[i].key : i \in DOMAIN insts} = Reached
            /\ \A i, j \in DOMAIN insts : insts[i].key = insts[j].key => i = j
            /\ {_cache[i].key : i \in DOMAIN _cache} = Reached)
    /\ \A t \in Threads : (work[t].pending ~> (ret.op = "get" /\ stack[t] = <<>>))
\* C27 witness: the repository was built on an empty cache, both its parameters
\* bound to the one database adapter.
C27_BothPathsOneInstance ==
    /\ RepoBuilt
    /\ Len(insts) = 2
    /\ dict_get(insts[2].kwargs, <<"documents">>) = Obj(1)
    /\ dict_get(insts[2].kwargs, <<"chunks">>) = Obj(1)

\* C24: while a shutdown() is between the start of its iteration over the cache and
\* the clearing of the cache, the cache is the one it started to iterate: no get()
\* inserts an entry, be it called from another thread or from another coroutine of
\* the thread of the shutdown().
C24_ShutdownExcludesGet == sd.pc # "idle" => _cache = sd.cached

\* C28: the reference list_components() gives for a declared instance resolves, as
\* a component, to the entry of its four names, whatever characters the names hold.
C28_ListedRefsResolve ==
    \A names \in DeclaredInstances :
        (lookup.pc = "ref" /\ lookup.resolved /\ lookup.ref_type = "component"
            /\ lookup.ref = join(names, ".")) =>
                lookup.out.ok /\ lookup.out.target = names

\* A connect() before call n completed successfully, with no disconnect() since.
ConnectedBefore(n) ==
    \E i \in 1..(n - 1) :
        /\ mongo.log[i].op = "connect" /\ mongo.log[i].ok
        /\ \A j \in (i + 1)..(n - 1) : mongo.log[j].op # "disconnect"

\* C29: after every call on the adapter _engine is set exactly when _motor_client
\* is set, and a get_motor_client() that returns follows a connect() that completed
\* successfully.
C29_EngineIffClient ==
    mongo.pc = "adapter" =>
        /\ mongo._engine <=> mongo._motor_client
        /\ \A n \in DOMAIN mongo.log :
              mongo.log[n].op = "get_motor_client" /\ mongo.log[n].ok => ConnectedBefore(n)

\* The calls of the handler that failed with an exception the middleware takes.
Failed(n) == ~retry.outcomes[n].ok /\ retry.outcomes[n].exc.type # "CancelledError"
AllFailed == \A n \in DOMAIN retry.outcomes : Failed(n)
MaxFailed ==
    /\ AllFailed
    /\ Len(retry.outcomes) = (IF retry.max_attempts > 0 THEN retry.max_attempts ELSE 0)
RaisedLLM == retry.pc = "done" /\ ~retry.out.ok /\ retry.out.exc.type = "LLMCallException"

\* C30: awrap_model_call calls the handler at most max_attempts times; every call
\* before the last one made failed; it returns exactly when the last call made
\* returned; it raises LLMCallException exactly when max_attempts calls in a row
\* failed, which for max_attempts <= 0 is with no call at all. An exception that
\* does not derive from Exception ends the call as it is.
C30_RetryUpToMaxAttempts ==
    retry.pc # "none" =>
        /\ Len(retry.outcomes) <= (IF retry.max_attempts > 0 THEN retry.max_attempts ELSE 0)
        /\ \A n \in 1..(Len(retry.outcomes) - 1) : Failed(n)
        /\ retry.pc = "loop" => AllFailed /\ Len(retry.outcomes) = retry.attempt
        /\ retry.pc = "done" =>
              /\ retry.out.ok <=>
                    Len(retry.outcomes) > 0 /\ retry.outcomes[Len(retry.outcomes)].ok
              /\ RaisedLLM <=> MaxFailed
              /\ ~retry.out.ok /\ ~RaisedLLM =>
                    retry.out = retry.outcomes[Len(retry.outcomes)]

\* Two calls failed, the third returned, and the call returned.
C30_ReturnsOnThirdAttempt ==
    /\ retry.pc = "done" /\ retry.out.ok
    /\ retry.max_attempts = 3 /\ Len(retry.outcomes) = 3

====
